---- MODULE Spec2Model ----
(***************************************************************************)
(* HighwayHash (google/highwayhash): the keyed compression state in its    *)
(* portable and AVX2 implementations, the one-shot driver HighwayHashT,    *)
(* the incremental HighwayHashCatT, the CPU feature dispatcher             *)
(* InstructionSets and the data-parallel ThreadPool.                       *)
(*                                                                         *)
(* TLC integers are 32 bits wide, so a uint64_t is a tuple of 8 bytes and  *)
(* a uint32_t a tuple of 4 bytes, least significant byte first (the hosts  *)
(* are little-endian); a 256-bit vector is a tuple of 32 bytes.            *)
(***************************************************************************)
EXTENDS Integers, Sequences, FiniteSets, TLC

(***************************************************************************)
(* Bounds of the model.                                                    *)
(***************************************************************************)
\* Inputs of the one-shot hash have 0..MaxSize bytes, or one of ExtraSizes.
MaxSize == 34

\* InstructionSets: the number of threads calling Supported() and Run
\* concurrently, and the number of calls each makes.
NumThreads == 2

MaxCalls == 2

\* The number of calls of the one-shot hash that one caller makes.
MaxHashCalls == 3

\* HighwayHashCatT: the length of the byte string whose prefixes are
\* appended, and the largest number of Append calls.
MaxCat == 69

MaxAppends == 3

\* The largest number of Finalize calls made on one HighwayHashCatT.
MaxFinalizes == 2

ExtraSizes == {64, 65}

\* The all-zero inputs have 0..MaxZeroLen bytes.
MaxZeroLen == 512

\* ThreadPool: the largest num_threads, the largest end of a range passed
\* to Run, the number of returned Run calls that are counted, and the
\* largest number of spurious wakeups.
MaxWorkers == 2

MaxEnd == 2

MaxRuns == 2

MaxSpurious == 2

(***************************************************************************)
(* State.                                                                  *)
(***************************************************************************)
\* The caller's arguments: the key and the bytes to hash.
VARIABLES hh_key, hh_bytes

\* One call of HighwayHashT, run on a portable and an AVX2 state at once:
\* the loop variable offset, the position pc, the two HHState objects, the
\* result written to *hash by each (hh_hash), the offsets of bytes each has
\* read, and the calls made on the state.
VARIABLES offset, pc, portable, avx2, hh_hash, reads, calls

\* One HighwayHashCatT<Target>: the object cat with its members state_,
\* buffer_ and buffer_usage_, the position cat_pc of its caller, the number
\* of bytes of hh_bytes appended so far and of Append calls made, the result
\* written by Finalize, and the offsets read from the caller's bytes and
\* from buffer_; and the result of the one-shot hash that the caller then
\* computes of the bytes it has appended.
VARIABLES cat_target, cat, cat_pc, cat_pos, cat_appends, cat_hash,
          cat_reads, buffer_reads, one_shot

\* What has been done with the object cat so far: the packets that its
\* state_.Update has been called on, in order, and the number of Finalize
\* calls that have returned.
VARIABLES cat_updates, cat_finalizes

\* InstructionSets: what CPUID and XGETBV report on this machine (cpu), the
\* atomics init_counter and instruction_set_bits_, and the threads calling
\* Supported() or Run: for each its position, the kind of its call, its
\* local flags, the number of calls it has completed and the targets its
\* Run has invoked; the values Supported() has returned so far, and the
\* number of times the detection block has run.
VARIABLES cpu, init_counter, instruction_set_bits_, threads, is_pc, is_kind,
          is_flags, is_done, invoked, returned, detections

\* A caller making one call of the one-shot hash after another: the target
\* whose result the current call returns, and every <<key, bytes, bits,
\* result>> returned so far, and the number of calls that have returned.
VARIABLES hh_target, digests, hh_calls

\* The all-zero inputs in order of length: the target, the length zero_len of
\* the next input, the state after Update on zero_packets packets of zeros,
\* and for each width the set of results of the inputs shorter than zero_len.
VARIABLES zero_target, zero_len, zero_packets, zero_state, zero_digests

\* One ThreadPool and the thread that owns it: the members num_threads_,
\* workers_ready_, worker_start_command_, task_ and num_reserved_; the
\* position tp_pc of the owner, the command it is sending (tp_command), and
\* whether it is blocked in workers_ready_cv_.wait (tp_wait); for each
\* worker its position in ThreadFunc and RunRange and its locals command,
\* num_reserved, my_size and i; the number of times func(i) has been
\* invoked since the last call of Run (invocations), the number of Run
\* calls that have returned, up to MaxRuns, and the number of spurious
\* wakeups so far.
VARIABLES num_threads_, workers_ready_, worker_start_command_, task_,
          num_reserved_, tp_pc, tp_command, tp_wait, w_pc, w_command,
          w_num_reserved, w_my_size, w_i, invocations, tp_runs, spurious

\* For each worker, the number of times it has invoked func since the last
\* call of Run.
VARIABLES w_executed

\* One comparison of the hash functions of sip_hash_main.cc's VerifyEqual,
\* each run on the same key and bytes at once: the family of functions
\* compared (tree_alg), the position tree_pc in the function body, the loop
\* variable tree_offset, the state object of each implementation, and the
\* value each has returned.
VARIABLES tree_alg, tree_pc, tree_offset, tree_state, tree_hash

\* The calls of PaddedUpdate made so far in that comparison, in order, each
\* with its arguments size and remaining_size.
VARIABLES tree_padded

\* One call of a member function of HHState on operands of its own: the
\* function called (fn), its arguments (fn_args) and, once it has returned,
\* what it left in its output arguments or passed on (fn_result).
VARIABLES fn, fn_args, fn_result

inputVars == <<hh_key, hh_bytes>>

callVars == <<hh_target, digests, hh_calls>>

zeroVars == <<zero_target, zero_len, zero_packets, zero_state, zero_digests>>

poolVars ==
  <<num_threads_, workers_ready_, worker_start_command_, task_,
    num_reserved_, tp_pc, tp_command, tp_wait, w_pc, w_command,
    w_num_reserved, w_my_size, w_i, invocations, tp_runs, spurious,
    w_executed>>

isVars ==
  <<cpu, init_counter, instruction_set_bits_, threads, is_pc, is_kind,
    is_flags, is_done, invoked, returned, detections>>

hashVars == <<offset, pc, portable, avx2, hh_hash, reads, calls>>

catVars ==
  <<cat_target, cat, cat_pc, cat_pos, cat_appends, cat_hash, cat_reads,
    buffer_reads, one_shot, cat_updates, cat_finalizes>>

treeVars ==
  <<tree_alg, tree_pc, tree_offset, tree_state, tree_hash, tree_padded>>

fnVars == <<fn, fn_args, fn_result>>

vars ==
  <<inputVars, hashVars, callVars, catVars, isVars, zeroVars, poolVars,
    treeVars, fnVars>>

\* What the steps of one part of the program leave alone.
HashFrame == UNCHANGED <<catVars, zeroVars, poolVars, treeVars, fnVars>>

CatFrame ==
  UNCHANGED <<hashVars, callVars, isVars, zeroVars, poolVars, treeVars,
              fnVars>>

ISFrame ==
  UNCHANGED <<inputVars, hashVars, callVars, catVars, zeroVars, poolVars,
              treeVars, fnVars>>

ZeroFrame ==
  UNCHANGED <<hh_bytes, hashVars, callVars, catVars, isVars, poolVars,
              treeVars, fnVars>>

PoolFrame ==
  UNCHANGED <<inputVars, hashVars, callVars, catVars, isVars, zeroVars,
              treeVars, fnVars>>

TreeFrame ==
  UNCHANGED <<hashVars, callVars, catVars, isVars, zeroVars, poolVars,
              fnVars>>

FnFrame ==
  UNCHANGED <<inputVars, hashVars, callVars, catVars, isVars, zeroVars,
              poolVars, treeVars>>

\* *hash before a result is written to it.
NoHash == << >>

\* The parts of the program that take no step in a specification: no call
\* of HighwayHashT is under way, no HighwayHashCatT exists, no thread calls
\* InstructionSets, no zero input is hashed, no ThreadPool exists.
HashIdle ==
  /\ offset = 0
  /\ pc = "idle"
  /\ portable = << >>
  /\ avx2 = << >>
  /\ hh_hash = [Portable |-> NoHash, AVX2 |-> NoHash]
  /\ reads = [Portable |-> {}, AVX2 |-> {}]
  /\ calls = << >>

CatIdle ==
  /\ cat_target = "Portable"
  /\ cat = << >>
  /\ cat_pc = "idle"
  /\ cat_pos = 0
  /\ cat_appends = 0
  /\ cat_hash = NoHash
  /\ cat_reads = {}
  /\ buffer_reads = {}
  /\ one_shot = NoHash
  /\ cat_updates = << >>
  /\ cat_finalizes = 0

CallIdle ==
  /\ hh_target = "Portable"
  /\ digests = {}
  /\ hh_calls = 0

ZeroIdle ==
  /\ zero_target = "Portable"
  /\ zero_len = 0
  /\ zero_packets = 0
  /\ zero_state = << >>
  /\ zero_digests = << >>

PoolIdle ==
  /\ num_threads_ = 0
  /\ workers_ready_ = 0
  /\ worker_start_command_ = << >>
  /\ task_ = "empty"
  /\ num_reserved_ = 0
  /\ tp_pc = "none"
  /\ tp_command = << >>
  /\ tp_wait = "no"
  /\ w_pc = << >>
  /\ w_command = << >>
  /\ w_num_reserved = << >>
  /\ w_my_size = << >>
  /\ w_i = << >>
  /\ invocations = << >>
  /\ tp_runs = 0
  /\ spurious = 0
  /\ w_executed = << >>

TreeIdle ==
  /\ tree_alg = "none"
  /\ tree_pc = "idle"
  /\ tree_offset = 0
  /\ tree_state = << >>
  /\ tree_hash = << >>
  /\ tree_padded = << >>

FnIdle ==
  /\ fn = "none"
  /\ fn_args = << >>
  /\ fn_result = << >>

ISIdle ==
  /\ cpu = << >>
  /\ init_counter = 0
  /\ instruction_set_bits_ = 0
  /\ threads = {}
  /\ is_pc = << >>
  /\ is_kind = << >>
  /\ is_flags = << >>
  /\ is_done = << >>
  /\ invoked = << >>
  /\ returned = {}
  /\ detections = 0

(***************************************************************************)
(* Byte and word arithmetic.                                               *)
(***************************************************************************)
RECURSIVE XorBits(_, _, _)
XorBits(a, b, n) ==
  IF n = 0 THEN 0
  ELSE ((a + b) % 2) + 2 * XorBits(a \div 2, b \div 2, n - 1)

RECURSIVE AndBits(_, _, _)
AndBits(a, b, n) ==
  IF n = 0 THEN 0
  ELSE ((a % 2) * (b % 2)) + 2 * AndBits(a \div 2, b \div 2, n - 1)

XorTable == [a \in 0..15 |-> [b \in 0..15 |-> XorBits(a, b, 4)]]

AndTable == [a \in 0..15 |-> [b \in 0..15 |-> AndBits(a, b, 4)]]

XorByte(a, b) ==
  XorTable[a \div 16][b \div 16] * 16 + XorTable[a % 16][b % 16]

AndByte(a, b) ==
  AndTable[a \div 16][b \div 16] * 16 + AndTable[a % 16][b % 16]

\* a | b == (a ^ b) + (a & b), bytewise without carry.
OrByte(a, b) == XorByte(a, b) + AndByte(a, b)

Pow2(n) == CASE n = 0 -> 1 [] n = 1 -> 2 [] n = 2 -> 4 [] n = 3 -> 8
             [] n = 4 -> 16 [] n = 5 -> 32 [] n = 6 -> 64 [] n = 7 -> 128
             [] n = 8 -> 256

\* The byte array with the elements of f, built as a tuple.
Bytes(f) == f \o << >>

\* A local of the code: the value is computed, then F is applied to it.
Let(value, F(_)) == CASE value = value -> F(value)

Xor(x, y) == Bytes([i \in 1..Len(x) |-> XorByte(x[i], y[i])])

And(x, y) == Bytes([i \in 1..Len(x) |-> AndByte(x[i], y[i])])

Or(x, y) == Bytes([i \in 1..Len(x) |-> OrByte(x[i], y[i])])

Zero(n) == Bytes([i \in 1..n |-> 0])

\* x + y modulo 2^(8 * Len(x)).
RECURSIVE AddCarry(_, _, _, _)
AddCarry(x, y, i, carry) ==
  IF i > Len(x) THEN << >>
  ELSE LET s == x[i] + y[i] + carry
       IN  <<s % 256>> \o AddCarry(x, y, i + 1, s \div 256)

Add(x, y) == AddCarry(x, y, 1, 0)

\* x << count and x >> count on an unsigned integer of Len(x) bytes,
\* 0 <= count < 8 * Len(x).
ByteAt(x, i) == IF i >= 1 /\ i <= Len(x) THEN x[i] ELSE 0

Shl(x, count) ==
  LET q == count \div 8
      r == count % 8
  IN  Bytes([i \in 1..Len(x) |->
               ((ByteAt(x, i - q) * Pow2(r)) % 256)
                 + (ByteAt(x, i - q - 1) \div Pow2(8 - r))])

Shr(x, count) ==
  LET q == count \div 8
      r == count % 8
  IN  Bytes([i \in 1..Len(x) |->
               (ByteAt(x, i + q) \div Pow2(r))
                 + ((ByteAt(x, i + q + 1) * Pow2(8 - r)) % 256)])

\* The product of two unsigned integers of Len(x) bytes, modulo
\* 2^(8 * Len(x)): column sums of the byte products, then the carries.
RECURSIVE ColumnSum(_, _, _, _)
ColumnSum(x, y, k, i) ==
  IF i > k THEN 0
  ELSE x[i] * y[k + 1 - i] + ColumnSum(x, y, k, i + 1)

RECURSIVE MulCarry(_, _, _, _)
MulCarry(x, y, k, carry) ==
  IF k > Len(x) THEN << >>
  ELSE LET s == ColumnSum(x, y, k, 1) + carry
       IN  <<s % 256>> \o MulCarry(x, y, k + 1, s \div 256)

Mul(x, y) == MulCarry(x, y, 1, 0)

\* Integer conversions.
Low32(x) == SubSeq(x, 1, 4)

ZeroExtend64(x) == x \o Zero(8 - Len(x))

U64(n) == <<n % 256, (n \div 256) % 256, 0, 0, 0, 0, 0, 0>>

\* A 64-bit literal from its two 32-bit halves, each given as two 16-bit
\* numbers: Lit64(h3, h2, h1, h0) is 0x h3 h2 h1 h0.
Lit64(h3, h2, h1, h0) ==
  <<h0 % 256, h0 \div 256, h1 % 256, h1 \div 256,
    h2 % 256, h2 \div 256, h3 % 256, h3 \div 256>>

(***************************************************************************)
(* hh_portable.h: HHState<TargetPortable>.                                 *)
(***************************************************************************)
kNumLanes == 4

LaneIds == 1..kNumLanes

\* The value of a loop over the four lanes.
ForLanes(F(_)) == <<F(1), F(2), F(3), F(4)>>

\* hh_portable.h:37 and :39, in the order of the array initialisers.
portable_init0 ==
  << Lit64(56294, 54741, 65100, 52783),   \* 0xdbe6d5d5fe4cce2f
     Lit64(41993, 14370, 10655, 12752),   \* 0xa4093822299f31d0
     Lit64(4889, 35374, 880, 29508),      \* 0x13198a2e03707344
     Lit64(9279, 27272, 34211, 2259) >>   \* 0x243f6a8885a308d3

portable_init1 ==
  << Lit64(15315, 40464, 51982, 62867),   \* 0x3bd39e10cb0ef593
     Lit64(49324, 61801, 46577, 35468),   \* 0xc0acf169b5f18a8c
     Lit64(48724, 26319, 13545, 3180),    \* 0xbe5466cf34e90c6c
     Lit64(17704, 8678, 14544, 4983) >>   \* 0x452821e638d01377

\* uint64_t Rotate64By32(x): (x >> 32) | (x << 32).
PortableRotate64By32(x) == Or(Shr(x, 32), Shl(x, 32))

\* A constructor that XORs init1 with the keys as they are.
PortableInitNoRotate(keys) ==
  [ mul0 |-> portable_init0,
    mul1 |-> portable_init1,
    v0   |-> ForLanes(LAMBDA l : Xor(portable_init0[l], keys[l])),
    v1   |-> ForLanes(LAMBDA l : Xor(portable_init1[l], keys[l])) ]

PortableInit(keys) ==
  [ mul0 |-> portable_init0,
    mul1 |-> portable_init1,
    v0   |-> ForLanes(LAMBDA l : Xor(portable_init0[l], keys[l])),
    v1   |-> ForLanes(LAMBDA l :
                Xor(portable_init1[l], PortableRotate64By32(keys[l]))) ]

\* MASK(v, bytes): clears all bits except one byte at the given offset.
MASK(v, b) == And(v, Shl(<<255, 0, 0, 0, 0, 0, 0, 0>>, b * 8))

Sum(s) == IF Len(s) = 1 THEN s[1]
          ELSE IF Len(s) = 2 THEN Add(s[1], s[2])
          ELSE IF Len(s) = 6 THEN
            Add(Add(Add(Add(Add(s[1], s[2]), s[3]), s[4]), s[5]), s[6])
          ELSE
            Add(Add(Add(Add(Add(Add(s[1], s[2]), s[3]), s[4]), s[5]), s[6]),
                s[7])

\* The term of byte 1 of v0 shifted by 24 instead of 32, onto the byte that
\* byte 6 of v1 is shifted to.
ZipperMergeAdd0Overlap(v1, v0) ==
  Sum(<< Shr(Add(MASK(v0, 3), MASK(v1, 4)), 24),
         Shr(Add(MASK(v0, 5), MASK(v1, 6)), 16),
         MASK(v0, 2),
         Shl(MASK(v0, 1), 24),
         Shr(MASK(v1, 7), 8),
         Shl(v0, 56) >>)

\* ZipperMergeAndAdd(v1, v0, &add1, &add0): the two sums added to add1, add0.
ZipperMergeAdd0(v1, v0) ==
  Sum(<< Shr(Add(MASK(v0, 3), MASK(v1, 4)), 24),
         Shr(Add(MASK(v0, 5), MASK(v1, 6)), 16),
         MASK(v0, 2),
         Shl(MASK(v0, 1), 32),
         Shr(MASK(v1, 7), 8),
         Shl(v0, 56) >>)

ZipperMergeAdd1(v1, v0) ==
  Sum(<< Shr(Add(MASK(v1, 3), MASK(v0, 4)), 24),
         MASK(v1, 2),
         Shr(MASK(v1, 5), 16),
         Shl(MASK(v1, 1), 24),
         Shr(MASK(v0, 6), 8),
         Shl(MASK(v1, 0), 48),
         MASK(v0, 7) >>)

\* The lane loop of Update (hh_portable.h:56-62) for one lane.
PortableMulLane(s, l) ==
  LET v1_32 == ZeroExtend64(Low32(s.v1[l]))
      m0    == Xor(s.mul0[l], Mul(v1_32, Shr(s.v0[l], 32)))
      nv0   == Add(s.v0[l], s.mul1[l])
      v0_32 == ZeroExtend64(Low32(nv0))
      m1    == Xor(s.mul1[l], Mul(v0_32, Shr(s.v1[l], 32)))
  IN  [mul0 |-> m0, v0 |-> nv0, mul1 |-> m1]

\* ZipperMergeAndAdd(v1[1], v1[0], &add[1], &add[0]) and
\* ZipperMergeAndAdd(v1[3], v1[2], &add[3], &add[2]): the new add.
ZipperMergeAndAddLanes(v1, add) ==
  << Add(add[1], ZipperMergeAdd0(v1[2], v1[1])),
     Add(add[2], ZipperMergeAdd1(v1[2], v1[1])),
     Add(add[3], ZipperMergeAdd0(v1[4], v1[3])),
     Add(add[4], ZipperMergeAdd1(v1[4], v1[3])) >>

PortableUpdate(s, packets) ==
  Let(ForLanes(LAMBDA l : Add(Add(s.v1[l], packets[l]), s.mul0[l])),
      LAMBDA v1a :
  Let(ForLanes(LAMBDA l : PortableMulLane([s EXCEPT !.v1 = v1a], l)),
      LAMBDA m :
  Let(ZipperMergeAndAddLanes(v1a, ForLanes(LAMBDA l : m[l].v0)),
      LAMBDA v0c :
        [ v0   |-> v0c,
          v1   |-> ZipperMergeAndAddLanes(v0c, v1a),
          mul0 |-> ForLanes(LAMBDA l : m[l].mul0),
          mul1 |-> ForLanes(LAMBDA l : m[l].mul1) ])))

\* const Lanes& packets = *reinterpret_cast<const Lanes*>(bytes).
LanesFromBytes(b) == ForLanes(LAMBDA l : SubSeq(b, 8 * l - 7, 8 * l))

BytesFromLanes(v) == v[1] \o v[2] \o v[3] \o v[4]

\* static_cast<uint64_t>(char): char is signed on the x86-64 targets of
\* the repository, so the conversion sign-extends.
CharToUint64(c) ==
  LET f == IF c >= 128 THEN 255 ELSE 0
  IN  <<c, f, f, f, f, f, f, f>>

\* size & ~3 and size & 3 on the small sizes of UpdateRemainder.
AndNot3(n) == n - (n % 4)

\* A rotation to the right instead of to the left.
PortableRotate32ByRight(x, count) == Or(Shr(x, count), Shl(x, 32 - count))

\* Rotate32By(halves, count) on one 32-bit half.
PortableRotate32By(x, count) == Or(Shl(x, count), Shr(x, 32 - count))

PortableRotate32ByLane(v, count) ==
  PortableRotate32By(SubSeq(v, 1, 4), count)
    \o PortableRotate32By(SubSeq(v, 5, 8), count)

\* memcpy(dest + at, src, Len(src)) into the byte array dest.
Memcpy(dest, at, src) ==
  Bytes([i \in 1..Len(dest) |->
           IF i > at /\ i <= at + Len(src) THEN src[i - at] ELSE dest[i]])

\* A gather that takes final_bytes[idx0] in place of final_bytes[idx1].
GatherLast4NoMiddle(bytes, size_mod32) ==
  LET size_mod4 == size_mod32 % 4
      base == AndNot3(size_mod32)
      idx0 == 0
      idx2 == size_mod4 - 1
  IN  IF size_mod4 # 0
      THEN Add(Add(CharToUint64(bytes[base + idx0 + 1]),
                   Shl(CharToUint64(bytes[base + idx0 + 1]), 8)),
               Shl(CharToUint64(bytes[base + idx2 + 1]), 16))
      ELSE Zero(8)

\* The 0..3 trailing bytes gathered into last4 (hh_portable.h:96-108),
\* final_bytes being the bytes from offset size_mod32 & ~3 on.
GatherLast4(bytes, size_mod32) ==
  LET size_mod4 == size_mod32 % 4
      base == AndNot3(size_mod32)
      idx0 == 0
      idx1 == size_mod4 \div 2
      idx2 == size_mod4 - 1
  IN  IF size_mod4 # 0
      THEN Add(Add(CharToUint64(bytes[base + idx0 + 1]),
                   Shl(CharToUint64(bytes[base + idx1 + 1]), 8)),
               Shl(CharToUint64(bytes[base + idx2 + 1]), 16))
      ELSE Zero(8)

\* The padded packet UpdateRemainder builds (hh_portable.h:83-113).
PortableRemainderPacket(bytes, size_mod32) ==
  LET packet == Memcpy(Zero(32), 0, SubSeq(bytes, 1, AndNot3(size_mod32)))
  IN  IF (size_mod32 \div 16) % 2 = 1
      THEN LET last4 == SubSeq(bytes, size_mod32 - 3, size_mod32)
           IN  Memcpy(packet, 28, last4)
      ELSE Memcpy(packet, 16, GatherLast4(bytes, size_mod32))

\* The offsets of bytes that UpdateRemainder reads (relative to bytes).
PortableRemainderReads(size_mod32) ==
  LET size_mod4 == size_mod32 % 4
      base == AndNot3(size_mod32)
  IN  (0..(base - 1))
        \cup (IF (size_mod32 \div 16) % 2 = 1
              THEN (size_mod32 - 4)..(size_mod32 - 1)
              ELSE IF size_mod4 # 0
                   THEN {base, base + (size_mod4 \div 2),
                         base + size_mod4 - 1}
                   ELSE {})

\* An UpdateRemainder that pads the packet but leaves the length out of
\* v0 and v1.
PortableUpdateRemainderNoLength(s, bytes, size_mod32) ==
  PortableUpdate(s, LanesFromBytes(PortableRemainderPacket(bytes, size_mod32)))

PortableUpdateRemainder(s, bytes, size_mod32) ==
  LET mod32_pair == Add(Shl(U64(size_mod32), 32), U64(size_mod32))
      s1 == [s EXCEPT
               !.v0 = ForLanes(LAMBDA l : Add(s.v0[l], mod32_pair)),
               !.v1 = ForLanes(LAMBDA l :
                         PortableRotate32ByLane(s.v1[l], size_mod32))]
  IN  PortableUpdate(s1,
        LanesFromBytes(PortableRemainderPacket(bytes, size_mod32)))

PortablePermute(v) ==
  << PortableRotate64By32(v[3]), PortableRotate64By32(v[4]),
     PortableRotate64By32(v[1]), PortableRotate64By32(v[2]) >>

PortablePermuteAndUpdate(s) == PortableUpdate(s, PortablePermute(s.v0))

\* Shift128Left<kBits>(&a1, &a0): the new <<a1, a0>>.
Shift128Left(kBits, a1, a0) ==
  LET shifted1 == Shl(a1, kBits)
      top_bits == Shr(a0, 64 - kBits)
  IN  <<Or(shifted1, top_bits), Shl(a0, kBits)>>

\* ModularReduction(a3_unmasked, a2, a1, a0, &m1, &m0): <<m1, m0>>.
PortableModularReduction(a3_unmasked, a2, a1, a0) ==
  LET a3   == And(a3_unmasked, <<255, 255, 255, 255, 255, 255, 255, 63>>)
      shl1 == Shift128Left(1, a3, a2)
      shl2 == Shift128Left(2, a3, a2)
  IN  << Xor(Xor(a1, shl1[1]), shl2[1]), Xor(Xor(a0, shl1[2]), shl2[2]) >>

PortableFourRounds(s) ==
  Let(PortablePermuteAndUpdate(s), LAMBDA r1 :
  Let(PortablePermuteAndUpdate(r1), LAMBDA r2 :
  Let(PortablePermuteAndUpdate(r2), LAMBDA r3 :
      PortablePermuteAndUpdate(r3))))

\* What Finalize writes to *result for HHResult64, HHResult128 and
\* HHResult256 from the state f its four rounds leave: a tuple of 1, 2 or 4
\* uint64_t.
PortableResult(f, bits) ==
      CASE bits = 64 ->
             << Add(Add(Add(f.v0[1], f.v1[1]), f.mul0[1]), f.mul1[1]) >>
        [] bits = 128 ->
             << Add(Add(Add(f.v0[1], f.mul0[1]), f.v1[3]), f.mul1[3]),
                Add(Add(Add(f.v0[2], f.mul0[2]), f.v1[4]), f.mul1[4]) >>
        [] bits = 256 ->
             LET lo == PortableModularReduction(
                         Add(f.v1[2], f.mul1[2]), Add(f.v1[1], f.mul1[1]),
                         Add(f.v0[2], f.mul0[2]), Add(f.v0[1], f.mul0[1]))
                 hi == PortableModularReduction(
                         Add(f.v1[4], f.mul1[4]), Add(f.v1[3], f.mul1[3]),
                         Add(f.v0[4], f.mul0[4]), Add(f.v0[3], f.mul0[3]))
             IN  << lo[2], lo[1], hi[2], hi[1] >>

PortableFinalize(s, bits) ==
  Let(PortableFourRounds(s), LAMBDA f : PortableResult(f, bits))

(***************************************************************************)
(* The AVX2/SSE intrinsics used by hh_avx2.h. A __m256i is a tuple of 32   *)
(* bytes and a __m128i a tuple of 16 bytes, byte 1 the lowest.             *)
(***************************************************************************)
\* The n-th element (from 0) of a vector of elements of w bytes.
Elem(v, w, n) == SubSeq(v, w * n + 1, w * n + w)

\* The vector whose elements of w bytes are F(0), F(1), ...
RECURSIVE ElemsFrom(_, _, _)
ElemsFrom(F(_), n, count) ==
  IF n = count THEN << >>
  ELSE IF n + 1 = count THEN F(n)
  ELSE ElemsFrom(F, n, n + (count - n) \div 2)
         \o ElemsFrom(F, n + (count - n) \div 2, count)

mm256_set_epi64x(p_3, p_2, p_1, p_0) == p_0 \o p_1 \o p_2 \o p_3

mm_set_epi32(p_3, p_2, p_1, p_0) == p_0 \o p_1 \o p_2 \o p_3

U32(n) == <<n % 256, (n \div 256) % 256, 0, 0>>

mm_cvtsi64_si128(a) == a \o Zero(8)

mm256_broadcastd_epi32(a) == ElemsFrom(LAMBDA n : Elem(a, 4, 0), 0, 8)

mm256_add_epi64(a, b) ==
  ElemsFrom(LAMBDA n : Add(Elem(a, 8, n), Elem(b, 8, n)), 0, 4)

mm_add_epi64(a, b) ==
  ElemsFrom(LAMBDA n : Add(Elem(a, 8, n), Elem(b, 8, n)), 0, 2)

\* a - b modulo 2^32 per element: a + ~b + 1.
Not(x) == ElemsFrom(LAMBDA n : <<255 - x[n + 1]>>, 0, Len(x))

mm256_sub_epi32(a, b) ==
  ElemsFrom(LAMBDA n : Add(Add(Elem(a, 4, n), Not(Elem(b, 4, n))), U32(1)),
            0, 8)

mm256_xor_si256(a, b) == Xor(a, b)

mm256_or_si256(a, b) == Or(a, b)

\* _mm256_andnot_si256(a, b) is (~a) & b.
mm256_andnot_si256(a, b) == And(Not(a), b)

mm256_slli_epi64(a, count) ==
  ElemsFrom(LAMBDA n : Shl(Elem(a, 8, n), count), 0, 4)

mm256_srli_epi64(a, count) ==
  ElemsFrom(LAMBDA n : Shr(Elem(a, 8, n), count), 0, 4)

\* The shift count of a variable shift, as a number when it is below 32
\* and as 32 (every bit shifted out) otherwise.
ShiftCount32(c) == IF c[2] = 0 /\ c[3] = 0 /\ c[4] = 0 /\ c[1] < 32
                   THEN c[1] ELSE 32

mm256_sllv_epi32(a, count) ==
  ElemsFrom(LAMBDA n :
              LET c == ShiftCount32(Elem(count, 4, n))
              IN  IF c = 32 THEN Zero(4) ELSE Shl(Elem(a, 4, n), c),
            0, 8)

mm256_srlv_epi32(a, count) ==
  ElemsFrom(LAMBDA n :
              LET c == ShiftCount32(Elem(count, 4, n))
              IN  IF c = 32 THEN Zero(4) ELSE Shr(Elem(a, 4, n), c),
            0, 8)

\* Unsigned 32 x 32 -> 64 bit product of the low halves of each lane.
mm256_mul_epu32(a, b) ==
  ElemsFrom(LAMBDA n : Mul(ZeroExtend64(Low32(Elem(a, 8, n))),
                           ZeroExtend64(Low32(Elem(b, 8, n)))),
            0, 4)

\* Byte shuffle within each 128-bit half; a control byte with its top bit
\* set yields zero.
mm256_shuffle_epi8(a, b) ==
  ElemsFrom(LAMBDA n :
              LET half == 16 * (n \div 16)
                  ctrl == b[n + 1]
              IN  IF ctrl >= 128 THEN <<0>>
                  ELSE <<a[half + (ctrl % 16) + 1]>>,
            0, 32)

\* _MM_SHUFFLE(z, y, x, w): element 0 selects w, 1 x, 2 y, 3 z.
mm256_shuffle_epi32(a, z, y, x, w) ==
  LET sel == <<w, x, y, z>>
  IN  ElemsFrom(LAMBDA n : Elem(a, 4, 4 * (n \div 4) + sel[(n % 4) + 1]),
                0, 8)

\* 32-bit permutation across the whole register; idx is a __m256i whose
\* elements' low three bits select the source element.
mm256_permutevar8x32_epi32(a, idx) ==
  ElemsFrom(LAMBDA n : Elem(a, 4, Elem(idx, 4, n)[1] % 8), 0, 8)

mm256_castsi256_si128(a) == SubSeq(a, 1, 16)

mm256_extracti128_si256(a, imm) == Elem(a, 16, imm)

\* _mm256_inserti128_si256(_mm256_castsi128_si256(lo), hi, 1).
V256From128(hi, lo) == lo \o hi

\* Signed a > b on 32-bit elements: all ones or zero.
RECURSIVE UnsignedGt(_, _, _)
UnsignedGt(a, b, i) ==
  IF i = 0 THEN FALSE
  ELSE IF a[i] # b[i] THEN a[i] > b[i]
  ELSE UnsignedGt(a, b, i - 1)

SignedGt32(a, b) ==
  LET na == a[4] >= 128
      nb == b[4] >= 128
  IN  IF na # nb THEN nb ELSE UnsignedGt(a, b, 4)

mm_cmpgt_epi32(a, b) ==
  ElemsFrom(LAMBDA n : IF SignedGt32(Elem(a, 4, n), Elem(b, 4, n))
                       THEN <<255, 255, 255, 255>> ELSE Zero(4),
            0, 4)

\* _mm_maskload_epi32(mem, mask): element n is loaded from the four bytes
\* at offset 4n of mem if the top bit of mask element n is set, else zero
\* without touching memory. mem is the byte sequence starting at the
\* address, possibly shorter than 16 bytes.
MaskSet(mask, n) == Elem(mask, 4, n)[4] >= 128

mm_maskload_epi32(mem, mask) ==
  ElemsFrom(LAMBDA n : IF MaskSet(mask, n) THEN Elem(mem, 4, n) ELSE Zero(4),
            0, 4)

mm_insert_epi32(a, i, imm) ==
  ElemsFrom(LAMBDA n : IF n = imm THEN i ELSE Elem(a, 4, n), 0, 4)

mm256_cmpeq_epi64(a, b) ==
  ElemsFrom(LAMBDA n : IF Elem(a, 8, n) = Elem(b, 8, n)
                       THEN <<255, 255, 255, 255, 255, 255, 255, 255>>
                       ELSE Zero(8),
            0, 4)

\* Byte shift left within each 128-bit half.
mm256_slli_si256(a, imm) ==
  ElemsFrom(LAMBDA n : Zero(imm) \o SubSeq(Elem(a, 16, n), 1, 16 - imm),
            0, 2)

\* Per 128-bit half: <<low 64 bits of a, low 64 bits of b>>.
mm256_unpacklo_epi64(a, b) ==
  ElemsFrom(LAMBDA n : Elem(a, 8, 2 * n) \o Elem(b, 8, 2 * n), 0, 2)

(***************************************************************************)
(* hh_avx2.h: HHState<TargetAVX2>.                                         *)
(***************************************************************************)
\* V4x64U(p_3, p_2, p_1, p_0): lane 0 (p_0) is the lowest.
V4x64U(p_3, p_2, p_1, p_0) == mm256_set_epi64x(p_3, p_2, p_1, p_0)

V4x32U(p_3, p_2, p_1, p_0) == mm_set_epi32(p_3, p_2, p_1, p_0)

avx2_init0 ==
  V4x64U(Lit64(9279, 27272, 34211, 2259),     \* 0x243f6a8885a308d3
         Lit64(4889, 35374, 880, 29508),      \* 0x13198a2e03707344
         Lit64(41993, 14370, 10655, 12752),   \* 0xa4093822299f31d0
         Lit64(56294, 54741, 65100, 52783))   \* 0xdbe6d5d5fe4cce2f

avx2_init1 ==
  V4x64U(Lit64(17704, 8678, 14544, 4983),     \* 0x452821e638d01377
         Lit64(48724, 26319, 13545, 3180),    \* 0xbe5466cf34e90c6c
         Lit64(49324, 61801, 46577, 35468),   \* 0xc0acf169b5f18a8c
         Lit64(15315, 40464, 51982, 62867))   \* 0x3bd39e10cb0ef593

\* LoadUnaligned<V4x64U>(key_lanes).
LoadUnalignedLanes(lanes) == BytesFromLanes(lanes)

\* _mm256_shuffle_epi32(v, _MM_SHUFFLE(2, 3, 0, 1)).
AVX2Rotate64By32(v) == mm256_shuffle_epi32(v, 2, 3, 0, 1)

AVX2Init(key_lanes) ==
  LET key == LoadUnalignedLanes(key_lanes)
  IN  [ v0   |-> mm256_xor_si256(key, avx2_init0),
        v1   |-> mm256_xor_si256(AVX2Rotate64By32(key), avx2_init1),
        mul0 |-> avx2_init0,
        mul1 |-> avx2_init1 ]

AVX2MulLow32(a, b) == mm256_mul_epu32(a, b)

zipper_hi == Lit64(1800, 1545, 3338, 1035)    \* 0x070806090D0A040B

zipper_lo == Lit64(15, 270, 1282, 3075)       \* 0x000F010E05020C03

AVX2ZipperMerge(v) ==
  mm256_shuffle_epi8(v, V4x64U(zipper_hi, zipper_lo, zipper_hi, zipper_lo))

\* Update(const V4x64U& packet), hh_avx2.h:218-228.
AVX2Update(s, packet) ==
  Let(mm256_add_epi64(s.v1, packet), LAMBDA v1p :
  Let(mm256_add_epi64(v1p, s.mul0), LAMBDA v1a :
  Let(mm256_xor_si256(s.mul0,
        AVX2MulLow32(v1a, mm256_srli_epi64(s.v0, 32))), LAMBDA m0 :
  Let(mm256_add_epi64(s.v0, s.mul1), LAMBDA v0a :
  Let(mm256_xor_si256(s.mul1,
        AVX2MulLow32(v0a, mm256_srli_epi64(v1a, 32))), LAMBDA m1 :
  Let(mm256_add_epi64(v0a, AVX2ZipperMerge(v1a)), LAMBDA v0b :
      [ v0   |-> v0b,
        v1   |-> mm256_add_epi64(v1a, AVX2ZipperMerge(v0b)),
        mul0 |-> m0,
        mul1 |-> m1 ]))))))

AVX2Rotate32By(v, count) ==
  Let(mm256_sllv_epi32(v, count), LAMBDA shifted_left :
  Let(mm256_sub_epi32(mm256_broadcastd_epi32(U32(32)), count),
      LAMBDA right_count :
  Let(mm256_srlv_epi32(v, right_count), LAMBDA shifted_right :
      mm256_or_si256(shifted_left, shifted_right))))

\* The two 128-bit halves <<packetH, packetL>> of the padded packet,
\* hh_avx2.h:81-128.
AVX2RemainderPacket(bytes, size_mod32) ==
  LET vsize_mod32 == mm256_broadcastd_epi32(mm_cvtsi64_si128(U64(size_mod32)))
  IN  IF (size_mod32 \div 16) % 2 = 1
      THEN LET packetL == SubSeq(bytes, 1, 16)
               min_minus_one == V4x32U(U32(31), U32(27), U32(23), U32(19))
               whole_ints ==
                 mm_cmpgt_epi32(mm256_castsi256_si128(vsize_mod32),
                                min_minus_one)
               packetH == mm_maskload_epi32(
                            SubSeq(bytes, 17, size_mod32), whole_ints)
               last4 == SubSeq(bytes, size_mod32 - 3, size_mod32)
           IN  V256From128(mm_insert_epi32(packetH, last4, 3), packetL)
      ELSE LET min_minus_one == V4x32U(U32(15), U32(11), U32(7), U32(3))
               whole_ints ==
                 mm_cmpgt_epi32(mm256_castsi256_si128(vsize_mod32),
                                min_minus_one)
               packetL == mm_maskload_epi32(bytes, whole_ints)
               packetH == mm_cvtsi64_si128(GatherLast4(bytes, size_mod32))
           IN  V256From128(packetH, packetL)

\* Loads of 16 bytes in place of the masked loads.
AVX2RemainderReadsUnmasked(size_mod32) ==
  IF (size_mod32 \div 16) % 2 = 1 THEN 0..31 ELSE 0..15

\* The offsets of bytes that UpdateRemainder reads (relative to bytes).
AVX2RemainderReads(size_mod32) ==
  LET size_mod4 == size_mod32 % 4
      base == AndNot3(size_mod32)
  IN  IF (size_mod32 \div 16) % 2 = 1
      THEN (0..15)
             \cup UNION {(16 + 4 * n)..(16 + 4 * n + 3) :
                           n \in {k \in 0..3 : size_mod32 > 19 + 4 * k}}
             \cup ((size_mod32 - 4)..(size_mod32 - 1))
      ELSE UNION {(4 * n)..(4 * n + 3) :
                    n \in {k \in 0..3 : size_mod32 > 3 + 4 * k}}
             \cup (IF size_mod4 # 0
                   THEN {base, base + (size_mod4 \div 2),
                         base + size_mod4 - 1}
                   ELSE {})

AVX2UpdateRemainder(s, bytes, size_mod32) ==
  Let(mm256_broadcastd_epi32(mm_cvtsi64_si128(U64(size_mod32))),
      LAMBDA vsize_mod32 :
  Let([s EXCEPT !.v0 = mm256_add_epi64(s.v0, vsize_mod32),
                !.v1 = AVX2Rotate32By(s.v1, vsize_mod32)], LAMBDA s1 :
  Let(AVX2RemainderPacket(bytes, size_mod32), LAMBDA packet :
      AVX2Update(s1, packet))))

permute_indices ==
  V4x64U(Lit64(0, 2, 0, 3), Lit64(0, 0, 0, 1),
         Lit64(0, 6, 0, 7), Lit64(0, 4, 0, 5))

AVX2Permute(v) == mm256_permutevar8x32_epi32(v, permute_indices)

\* XorByShift128Left12(ba, &out): the new out.
XorByShift128Left12(ba, out) ==
  LET zero == mm256_xor_si256(ba, ba)
      top_bits2 == mm256_srli_epi64(ba, 64 - 2)
      ones == mm256_cmpeq_epi64(ba, ba)
      shifted1_unmasked == mm256_add_epi64(ba, ba)
      top_bits1 == mm256_srli_epi64(ba, 64 - 1)
      upper_8bytes == mm256_slli_si256(ones, 8)
      shifted2 == mm256_add_epi64(shifted1_unmasked, shifted1_unmasked)
      upper_bit_of_128 == mm256_slli_epi64(upper_8bytes, 63)
      new_low_bits2 == mm256_unpacklo_epi64(zero, top_bits2)
      out1 == mm256_xor_si256(out, shifted2)
      shifted1 == mm256_andnot_si256(upper_bit_of_128, shifted1_unmasked)
      out2 == mm256_xor_si256(out1, new_low_bits2)
      new_low_bits1 == mm256_unpacklo_epi64(zero, top_bits1)
      out3 == mm256_xor_si256(out2, shifted1)
  IN  mm256_xor_si256(out3, new_low_bits1)

AVX2ModularReduction(b32a32, b10a10) == XorByShift128Left12(b32a32, b10a10)

AVX2PermuteAndUpdate(s) ==
  Let(AVX2Permute(s.v0), LAMBDA permuted : AVX2Update(s, permuted))

AVX2FourRounds(s) ==
  Let(AVX2PermuteAndUpdate(s), LAMBDA r1 :
  Let(AVX2PermuteAndUpdate(r1), LAMBDA r2 :
  Let(AVX2PermuteAndUpdate(r2), LAMBDA r3 :
      AVX2PermuteAndUpdate(r3))))

\* What Finalize writes to *result for HHResult64, HHResult128 and
\* HHResult256 from the state f its four rounds leave: a tuple of 1, 2 or 4
\* uint64_t.
AVX2Result(f, bits) ==
  Let(mm256_add_epi64(f.v0, f.mul0), LAMBDA sum0_256 :
  Let(mm256_add_epi64(f.v1, f.mul1), LAMBDA sum1_256 :
      CASE bits = 64 ->
             LET hash == mm_add_epi64(mm256_castsi256_si128(sum0_256),
                                      mm256_castsi256_si128(sum1_256))
             IN  << Elem(hash, 8, 0) >>
        [] bits = 128 ->
             LET hash == mm_add_epi64(mm256_castsi256_si128(sum0_256),
                                      mm256_extracti128_si256(sum1_256, 1))
             IN  << Elem(hash, 8, 0), Elem(hash, 8, 1) >>
        [] bits = 256 ->
             LanesFromBytes(AVX2ModularReduction(sum1_256, sum0_256))))

AVX2Finalize(s, bits) ==
  Let(AVX2FourRounds(s), LAMBDA f : AVX2Result(f, bits))

(***************************************************************************)
(* Keys and inputs of the model.                                           *)
(***************************************************************************)
\* The key of the repository's tests, 0x0706050403020100 ..., and a key
\* with high bits set.
TestKey ==
  << <<0, 1, 2, 3, 4, 5, 6, 7>>, <<8, 9, 10, 11, 12, 13, 14, 15>>,
     <<16, 17, 18, 19, 20, 21, 22, 23>>, <<24, 25, 26, 27, 28, 29, 30, 31>> >>

HighKey ==
  << <<255, 255, 255, 255, 255, 255, 255, 255>>, <<0, 0, 0, 0, 0, 0, 0, 0>>,
     <<1, 0, 0, 0, 0, 0, 0, 128>>, <<239, 205, 171, 137, 103, 69, 35, 1>> >>

Keys == {TestKey, HighKey}

\* Byte i (from 0) of the input patterns: all zero, i mod 256 as in the
\* tests, and bytes from 0xFF downwards.
Patterns == {"zero", "iota", "high"}

InputByte(pattern, i) ==
  CASE pattern = "zero" -> 0
    [] pattern = "iota" -> i % 256
    [] pattern = "high" -> (255 - 3 * i) % 256

MakeInput(pattern, size) ==
  Bytes([i \in 1..size |-> InputByte(pattern, i - 1)])

Sizes == (0..MaxSize) \cup ExtraSizes

Widths == {64, 128, 256}

Targets == {"Portable", "AVX2"}

(***************************************************************************)
(* HHState<Target>: the operations by target.                              *)
(***************************************************************************)
StateInit(target, k) ==
  IF target = "Portable" THEN PortableInit(k) ELSE AVX2Init(k)

\* Update(const char* bytes) on a packet of 32 bytes.
StateUpdate(target, s, packet) ==
  IF target = "Portable" THEN PortableUpdate(s, LanesFromBytes(packet))
  ELSE AVX2Update(s, packet)

StateUpdateRemainder(target, s, tail, size_mod32) ==
  IF target = "Portable" THEN PortableUpdateRemainder(s, tail, size_mod32)
  ELSE AVX2UpdateRemainder(s, tail, size_mod32)

\* Finalize: the state its four rounds leave, and what it writes to *result.
StateFourRounds(target, s) ==
  IF target = "Portable" THEN PortableFourRounds(s) ELSE AVX2FourRounds(s)

StateResult(target, f, bits) ==
  IF target = "Portable" THEN PortableResult(f, bits)
  ELSE AVX2Result(f, bits)

StateFinalize(target, s, bits) ==
  Let(StateFourRounds(target, s), LAMBDA f : StateResult(target, f, bits))

RemainderReads(target, size_mod32) ==
  IF target = "Portable" THEN PortableRemainderReads(size_mod32)
  ELSE AVX2RemainderReads(size_mod32)

\* The four lanes of a state member, whatever the target.
LanesOf(target, v) == IF target = "Portable" THEN v ELSE LanesFromBytes(v)

StateLanes(target, s) ==
  [ v0 |-> LanesOf(target, s.v0), v1 |-> LanesOf(target, s.v1),
    mul0 |-> LanesOf(target, s.mul0), mul1 |-> LanesOf(target, s.mul1) ]

(***************************************************************************)
(* highwayhash.h: HighwayHashT.                                            *)
(***************************************************************************)
kPacketSize == 32

\* size & (sizeof(HHPacket) - 1) and size & ~(sizeof(HHPacket) - 1).
Remainder(size) == size % kPacketSize

Truncated(size) == size - (size % kPacketSize)

\* The whole of HighwayHashT on a fresh state, as a function.
RECURSIVE UpdateLoop(_, _, _, _)
UpdateLoop(target, s, b, off) ==
  IF off < Truncated(Len(b))
  THEN Let(StateUpdate(target, s, SubSeq(b, off + 1, off + 32)),
           LAMBDA s1 : UpdateLoop(target, s1, b, off + kPacketSize))
  ELSE s

HighwayHashT(target, s, b, bits) ==
  Let(UpdateLoop(target, s, b, 0), LAMBDA s1 :
  Let(IF Remainder(Len(b)) # 0
      THEN StateUpdateRemainder(target, s1,
             SubSeq(b, Truncated(Len(b)) + 1, Len(b)), Remainder(Len(b)))
      ELSE s1,
      LAMBDA s2 : StateFinalize(target, s2, bits)))

\* HighwayHash<Target>::operator(): a fresh state, then HighwayHashT.
HighwayHash(target, k, b, bits) ==
  Let(StateInit(target, k), LAMBDA s : HighwayHashT(target, s, b, bits))


HashInit ==
  /\ hh_key \in Keys
  /\ \E pattern \in Patterns, size \in Sizes : hh_bytes = MakeInput(pattern, size)
  /\ offset = 0
  /\ pc = "update"
  /\ portable = PortableInit(hh_key)
  /\ avx2 = AVX2Init(hh_key)
  /\ hh_hash = [Portable |-> NoHash, AVX2 |-> NoHash]
  /\ reads = [Portable |-> {}, AVX2 |-> {}]
  /\ calls = << >>
  /\ CallIdle
  /\ CatIdle
  /\ ISIdle
  /\ ZeroIdle
  /\ PoolIdle
  /\ TreeIdle
  /\ FnIdle

\* for (offset = 0; offset < truncated; offset += 32) state->Update(...).
HHUpdate ==
  /\ pc = "update"
  /\ offset < Truncated(Len(hh_bytes))
  /\ LET packet == SubSeq(hh_bytes, offset + 1, offset + kPacketSize)
     IN  /\ portable' = StateUpdate("Portable", portable, packet)
         /\ avx2' = StateUpdate("AVX2", avx2, packet)
  /\ LET packet_reads == offset..(offset + kPacketSize - 1)
     IN  reads' = [Portable |-> reads["Portable"] \cup packet_reads,
                   AVX2 |-> reads["AVX2"] \cup packet_reads]
  /\ calls' = Append(calls, <<"Update", offset>>)
  /\ offset' = offset + kPacketSize
  /\ UNCHANGED <<hh_key, hh_bytes, pc, hh_hash>>
  /\ UNCHANGED <<callVars, isVars>>
  /\ HashFrame

\* A HighwayHashT that calls UpdateRemainder whatever the remainder is.
HHUpdateRemainderAlways ==
  /\ pc = "update"
  /\ offset >= Truncated(Len(hh_bytes))
  /\ LET truncated == Truncated(Len(hh_bytes))
         remainder == Remainder(Len(hh_bytes))
         tail == SubSeq(hh_bytes, truncated + 1, Len(hh_bytes))
     IN  /\ portable' =
               StateUpdateRemainder("Portable", portable, tail, remainder)
         /\ avx2' = StateUpdateRemainder("AVX2", avx2, tail, remainder)
         /\ reads' =
               [Portable |-> reads["Portable"] \cup
                   {truncated + o : o \in PortableRemainderReads(remainder)},
                AVX2 |-> reads["AVX2"] \cup
                   {truncated + o : o \in AVX2RemainderReads(remainder)}]
         /\ calls' = Append(calls, <<"UpdateRemainder", truncated, remainder>>)
  /\ pc' = "finalize"
  /\ UNCHANGED <<hh_key, hh_bytes, offset, hh_hash>>
  /\ UNCHANGED <<callVars, isVars>>
  /\ HashFrame

\* if (remainder != 0) state->UpdateRemainder(bytes + truncated, remainder).
HHUpdateRemainder ==
  /\ pc = "update"
  /\ offset >= Truncated(Len(hh_bytes))
  /\ Remainder(Len(hh_bytes)) # 0
  /\ LET truncated == Truncated(Len(hh_bytes))
         remainder == Remainder(Len(hh_bytes))
         tail == SubSeq(hh_bytes, truncated + 1, Len(hh_bytes))
     IN  /\ portable' =
               StateUpdateRemainder("Portable", portable, tail, remainder)
         /\ avx2' = StateUpdateRemainder("AVX2", avx2, tail, remainder)
         /\ reads' =
               [Portable |-> reads["Portable"] \cup
                   {truncated + o : o \in PortableRemainderReads(remainder)},
                AVX2 |-> reads["AVX2"] \cup
                   {truncated + o : o \in AVX2RemainderReads(remainder)}]
         /\ calls' = Append(calls, <<"UpdateRemainder", truncated, remainder>>)
  /\ pc' = "finalize"
  /\ UNCHANGED <<hh_key, hh_bytes, offset, hh_hash>>
  /\ UNCHANGED <<callVars, isVars>>
  /\ HashFrame

\* A Finalize that does not wait for UpdateRemainder.
HHFinalizeEarly ==
  /\ pc \in {"update", "finalize"}
  /\ offset >= Truncated(Len(hh_bytes))
  /\ portable' = PortableFourRounds(portable)
  /\ avx2' = AVX2FourRounds(avx2)
  /\ \E bits \in Widths :
       /\ hh_hash' = [Portable |-> PortableResult(portable', bits),
                       AVX2 |-> AVX2Result(avx2', bits)]
       /\ calls' = Append(calls, <<"Finalize", bits>>)
  /\ pc' = "done"
  /\ UNCHANGED <<hh_key, hh_bytes, offset, reads>>
  /\ UNCHANGED <<callVars, isVars>>
  /\ HashFrame

\* state->Finalize(hash), for one of the three result types.
HHFinalize ==
  /\ \/ pc = "finalize"
     \/ /\ pc = "update"
        /\ offset >= Truncated(Len(hh_bytes))
        /\ Remainder(Len(hh_bytes)) = 0
  /\ portable' = PortableFourRounds(portable)
  /\ avx2' = AVX2FourRounds(avx2)
  /\ \E bits \in Widths :
       /\ hh_hash' = [Portable |-> PortableResult(portable', bits),
                       AVX2 |-> AVX2Result(avx2', bits)]
       /\ calls' = Append(calls, <<"Finalize", bits>>)
  /\ pc' = "done"
  /\ UNCHANGED <<hh_key, hh_bytes, offset, reads>>
  /\ UNCHANGED <<callVars, isVars>>
  /\ HashFrame

HashNext == HHUpdate \/ HHUpdateRemainder \/ HHFinalize

SpecHash == HashInit /\ [][HashNext]_vars

CatAppendedNoFlush(target, c, bytes) ==
  LET num_bytes == Len(bytes)
      capacity == kPacketSize - c.buffer_usage_
  IN  IF c.buffer_usage_ # 0 /\ num_bytes <= capacity
      THEN [c EXCEPT !.buffer_ = Memcpy(@, c.buffer_usage_, bytes),
                     !.buffer_usage_ = @ + num_bytes]
      ELSE Let(IF c.buffer_usage_ # 0
               THEN Memcpy(c.buffer_, c.buffer_usage_,
                           SubSeq(bytes, 1, capacity))
               ELSE c.buffer_,
               LAMBDA flushed :
           Let(IF c.buffer_usage_ # 0
               THEN SubSeq(bytes, capacity + 1, num_bytes)
               ELSE bytes,
               LAMBDA rest :
             [ state_ |->
                 UpdateLoop(target,
                            IF c.buffer_usage_ # 0
                            THEN StateUpdate(target, c.state_, flushed)
                            ELSE c.state_,
                            rest, 0),
               buffer_ |->
                 Memcpy(flushed, 0,
                        SubSeq(rest, Truncated(Len(rest)) + 1, Len(rest))),
               buffer_usage_ |-> Remainder(Len(rest)) ]))

\* An Append that stores new bytes that fit over the prior bytes, at the
\* start of the buffer.
CatAppendedOverPrior(target, c, bytes) ==
  LET num_bytes == Len(bytes)
      capacity == kPacketSize - c.buffer_usage_
  IN  IF c.buffer_usage_ # 0 /\ num_bytes < capacity
      THEN [c EXCEPT !.buffer_ = Memcpy(@, 0, bytes),
                     !.buffer_usage_ = num_bytes]
      ELSE Let(IF c.buffer_usage_ # 0
               THEN Memcpy(c.buffer_, c.buffer_usage_,
                           SubSeq(bytes, 1, capacity))
               ELSE c.buffer_,
               LAMBDA flushed :
           Let(IF c.buffer_usage_ # 0
               THEN SubSeq(bytes, capacity + 1, num_bytes)
               ELSE bytes,
               LAMBDA rest :
             [ state_ |->
                 UpdateLoop(target,
                            IF c.buffer_usage_ # 0
                            THEN StateUpdate(target, c.state_, flushed)
                            ELSE c.state_,
                            rest, 0),
               buffer_ |->
                 Memcpy(flushed, 0,
                        SubSeq(rest, Truncated(Len(rest)) + 1, Len(rest))),
               buffer_usage_ |-> Remainder(Len(rest)) ]))

\* Append(bytes, num_bytes): the members afterwards. With prior bytes in
\* the buffer, new bytes that do not fill it are only copied; otherwise the
\* buffer is filled and flushed, whole packets are taken from the source,
\* and the rest is stored in the buffer.
CatAppended(target, c, bytes) ==
  LET num_bytes == Len(bytes)
      capacity == kPacketSize - c.buffer_usage_
  IN  IF c.buffer_usage_ # 0 /\ num_bytes < capacity
      THEN [c EXCEPT !.buffer_ = Memcpy(@, c.buffer_usage_, bytes),
                     !.buffer_usage_ = @ + num_bytes]
      ELSE Let(IF c.buffer_usage_ # 0
               THEN Memcpy(c.buffer_, c.buffer_usage_,
                           SubSeq(bytes, 1, capacity))
               ELSE c.buffer_,
               LAMBDA flushed :
           Let(IF c.buffer_usage_ # 0
               THEN SubSeq(bytes, capacity + 1, num_bytes)
               ELSE bytes,
               LAMBDA rest :
             [ state_ |->
                 UpdateLoop(target,
                            IF c.buffer_usage_ # 0
                            THEN StateUpdate(target, c.state_, flushed)
                            ELSE c.state_,
                            rest, 0),
               buffer_ |->
                 Memcpy(flushed, 0,
                        SubSeq(rest, Truncated(Len(rest)) + 1, Len(rest))),
               buffer_usage_ |-> Remainder(Len(rest)) ]))

\* The offsets of bytes that Append reads (relative to bytes): by its
\* memcpy calls and by the Update calls on the source.
CatAppendReads(buffer_usage, num_bytes) ==
  LET capacity == kPacketSize - buffer_usage
      flush == IF buffer_usage # 0 THEN capacity ELSE 0
      rest == num_bytes - flush
  IN  IF buffer_usage # 0 /\ num_bytes < capacity
      THEN 0..(num_bytes - 1)
      ELSE (0..(flush - 1))
             \cup UNION {(flush + kPacketSize * k)
                           ..(flush + kPacketSize * k + kPacketSize - 1) :
                         k \in 0..((rest \div kPacketSize) - 1)}
             \cup ((flush + Truncated(rest))..(flush + rest - 1))

\* The packets that Append passes to state_.Update, in order: the buffer
\* once the new bytes have filled it, then the whole packets of the source.
CatAppendUpdates(c, bytes) ==
  LET num_bytes == Len(bytes)
      capacity == kPacketSize - c.buffer_usage_
      flush == IF c.buffer_usage_ # 0 THEN capacity ELSE 0
      rest == SubSeq(bytes, flush + 1, num_bytes)
  IN  IF c.buffer_usage_ # 0 /\ num_bytes < capacity
      THEN << >>
      ELSE (IF c.buffer_usage_ # 0
            THEN << Memcpy(c.buffer_, c.buffer_usage_,
                           SubSeq(bytes, 1, capacity)) >>
            ELSE << >>)
             \o [k \in 1..(Len(rest) \div kPacketSize) |->
                   SubSeq(rest, kPacketSize * (k - 1) + 1, kPacketSize * k)]

\* A Finalize that forgets the bytes left in the buffer.
CatFlushedNever(target, c) == c.state_

\* Finalize: UpdateRemainder on the buffer when it holds bytes; the state
\* before state_.Finalize.
CatFlushed(target, c) ==
  IF c.buffer_usage_ # 0
  THEN StateUpdateRemainder(target, c.state_, c.buffer_, c.buffer_usage_)
  ELSE c.state_

\* The bytes of an uninitialised buffer_.
BufferFills == {0, 255}

CatKeys == {TestKey}

CatPatterns == {"high"}

FragmentSizes == {0, 1, 5, 27, 32, 33, 64}

\* HighwayHashCatT(key): state_(key), buffer_usage_ = 0, buffer_ is not
\* initialised.
CatInit ==
  /\ hh_key \in CatKeys
  /\ \E pattern \in CatPatterns : hh_bytes = MakeInput(pattern, MaxCat)
  /\ cat_target \in Targets
  /\ \E fill \in BufferFills :
       cat = [ state_ |-> StateInit(cat_target, hh_key),
               buffer_ |-> Bytes([i \in 1..kPacketSize |-> fill]),
               buffer_usage_ |-> 0 ]
  /\ cat_pc = "append"
  /\ cat_pos = 0
  /\ cat_appends = 0
  /\ cat_hash = NoHash
  /\ cat_reads = {}
  /\ buffer_reads = {}
  /\ one_shot = NoHash
  /\ cat_updates = << >>
  /\ cat_finalizes = 0
  /\ HashIdle
  /\ CallIdle
  /\ ISIdle
  /\ ZeroIdle
  /\ PoolIdle
  /\ TreeIdle
  /\ FnIdle

\* Append of the next num_bytes bytes of hh_bytes.
CatAppend ==
  /\ cat_pc = "append"
  /\ cat_appends < MaxAppends
  /\ \E num_bytes \in FragmentSizes :
       /\ cat_pos + num_bytes <= Len(hh_bytes)
       /\ cat' = CatAppended(cat_target, cat,
                             SubSeq(hh_bytes, cat_pos + 1, cat_pos + num_bytes))
       /\ cat_reads' = cat_reads \cup
            {cat_pos + o : o \in CatAppendReads(cat.buffer_usage_, num_bytes)}
       /\ cat_updates' = cat_updates \o
            CatAppendUpdates(cat, SubSeq(hh_bytes, cat_pos + 1,
                                         cat_pos + num_bytes))
       /\ cat_pos' = cat_pos + num_bytes
  /\ cat_appends' = cat_appends + 1
  /\ UNCHANGED <<hh_key, hh_bytes, cat_target, cat_pc, cat_hash, buffer_reads,
                 one_shot, cat_finalizes>>
  /\ CatFrame

\* Finalize(hash), for one of the three result types, and the one-shot hash
\* of the same bytes.
CatFinalize ==
  /\ cat_pc = "append"
  /\ cat' = [cat EXCEPT
               !.state_ = StateFourRounds(cat_target,
                                          CatFlushed(cat_target, cat))]
  /\ \E bits \in Widths :
       /\ cat_hash' = StateResult(cat_target, cat'.state_, bits)
       /\ one_shot' = HighwayHash(cat_target, hh_key,
                                  SubSeq(hh_bytes, 1, cat_pos), bits)
  /\ buffer_reads' = IF cat.buffer_usage_ # 0
                     THEN RemainderReads(cat_target, cat.buffer_usage_)
                     ELSE {}
  /\ cat_pc' = "done"
  /\ cat_finalizes' = cat_finalizes + 1
  /\ UNCHANGED <<hh_key, hh_bytes, cat_target, cat_pos, cat_appends, cat_reads,
                 cat_updates>>
  /\ CatFrame

CatNext == CatAppend \/ CatFinalize

SpecCat == CatInit /\ [][CatNext]_vars

(***************************************************************************)
(* C2: whatever the fragments appended, in order, to a fresh               *)
(* HighwayHashCatT, the digest its Finalize writes is the digest of        *)
(* HighwayHashT on a fresh state over the concatenation of the fragments,  *)
(* for the 64, 128 and 256 bit results.                                    *)
(***************************************************************************)
CatEqualsOneShot == cat_pc = "done" => cat_hash = one_shot

\* Three fragments, one of them empty, that leave bytes in the buffer, fill
\* and flush it, and take a whole packet from the source.
CatEqualsOneShotWitness ==
  /\ cat_pc = "done"
  /\ cat_appends = 3
  /\ cat_pos = 69
  /\ cat.buffer_usage_ = 5
  /\ Len(cat_hash) = 4
  /\ cat_hash = one_shot

(***************************************************************************)
(* Reads of the caller's bytes, by HighwayHashT and by HighwayHashCatT.    *)
(***************************************************************************)
ReadsInit == HashInit \/ CatInit

ReadsNext == HashNext \/ CatNext

SpecReads == ReadsInit /\ [][ReadsNext]_vars

(***************************************************************************)
(* C6: every offset of the caller's bytes that HighwayHashT has read, on   *)
(* the portable and on the AVX2 state, lies in [0, size), and every offset *)
(* that HighwayHashCatT has read lies within the bytes appended so far.    *)
(***************************************************************************)
ReadsInBounds ==
  /\ \A target \in Targets : reads[target] \subseteq 0..(Len(hh_bytes) - 1)
  /\ cat_reads \subseteq 0..(cat_pos - 1)

\* An input of 23 bytes, whose tail takes the masked loads and the gather
\* of the last three bytes: both targets have read every byte.
ReadsInBoundsWitness ==
  /\ pc = "done"
  /\ Len(hh_bytes) = 23
  /\ reads["Portable"] = 0..22
  /\ reads["AVX2"] = 0..22

(***************************************************************************)
(* HighwayHashT on the all-zero inputs, in order of length. The input of   *)
(* zero_len bytes shares its whole packets with the shorter ones, so the   *)
(* state after the Update loop is kept in zero_state.                      *)
(***************************************************************************)
\* What HighwayHashT writes, for each width, given the state after the
\* Update loop over the whole packets of size zero bytes.
HashOfZeros(target, s, size) ==
  Let(IF Remainder(size) # 0
      THEN StateUpdateRemainder(target, s, Zero(Remainder(size)),
                                Remainder(size))
      ELSE s,
      LAMBDA s1 :
  Let(StateFourRounds(target, s1), LAMBDA f :
      [bits \in Widths |-> StateResult(target, f, bits)]))

ZerosInit ==
  /\ hh_key \in Keys
  /\ hh_bytes = << >>
  /\ zero_target \in Targets
  /\ zero_len = 0
  /\ zero_packets = 0
  /\ zero_state = StateInit(zero_target, hh_key)
  /\ zero_digests = [bits \in Widths |-> {}]
  /\ HashIdle
  /\ CallIdle
  /\ CatIdle
  /\ ISIdle
  /\ PoolIdle
  /\ TreeIdle
  /\ FnIdle

\* state->Update on one more packet of zeros.
ZLUpdate ==
  /\ zero_len <= MaxZeroLen
  /\ zero_packets * kPacketSize < Truncated(zero_len)
  /\ zero_state' = StateUpdate(zero_target, zero_state, Zero(kPacketSize))
  /\ zero_packets' = zero_packets + 1
  /\ UNCHANGED <<hh_key, zero_target, zero_len, zero_digests>>
  /\ ZeroFrame

\* The rest of HighwayHashT on the input of zero_len zero bytes, for the
\* three result types.
ZLHash ==
  /\ zero_len <= MaxZeroLen
  /\ zero_packets * kPacketSize = Truncated(zero_len)
  /\ zero_digests' =
       Let(HashOfZeros(zero_target, zero_state, zero_len), LAMBDA hash :
           [bits \in Widths |-> zero_digests[bits] \cup {hash[bits]}])
  /\ zero_len' = zero_len + 1
  /\ UNCHANGED <<hh_key, zero_target, zero_packets, zero_state>>
  /\ ZeroFrame

ZerosNext == ZLUpdate \/ ZLHash

SpecZeros == ZerosInit /\ [][ZerosNext]_vars

(***************************************************************************)
(* C7: under one key, the all-zero inputs of different lengths in          *)
(* 0..MaxZeroLen have different digests, for the 64, 128 and 256 bit       *)
(* results: the zero_len inputs hashed so far have zero_len digests.       *)
(***************************************************************************)
ZeroLengthsDistinct ==
  \A bits \in Widths : Cardinality(zero_digests[bits]) = zero_len

\* Every length up to MaxZeroLen has been hashed by the AVX2 target.
ZeroLengthsDistinctWitness ==
  /\ zero_target = "AVX2"
  /\ hh_key = HighKey
  /\ zero_len = MaxZeroLen + 1
  /\ zero_packets = MaxZeroLen \div kPacketSize
  /\ Cardinality(zero_digests[64]) = MaxZeroLen + 1
(***************************************************************************)
(* instruction_sets.h, instruction_sets.cc: InstructionSets.               *)
(***************************************************************************)
kInitialized == 1

kSSE == 2

kSSE2 == 4

kSSE3 == 8

kSSSE3 == 16

kSSE41 == 32

kSSE42 == 64

kPOPCNT == 128

kAVX == 256

kAVX2 == 512

kFMA == 1024

kLZCNT == 2048

kBMI == 4096

kBMI2 == 8192

\* The flags are sums of distinct powers of two, so | is +.
kGroupAVX2 == kAVX + kAVX2 + kFMA + kLZCNT + kBMI + kBMI2

kGroupSSE41 == kSSE + kSSE2 + kSSE3 + kSSSE3 + kSSE41 + kPOPCNT

\* a & b and a & ~b on the flags.
RECURSIVE BitAnd(_, _)
BitAnd(a, b) ==
  IF a = 0 \/ b = 0 THEN 0
  ELSE ((a % 2) * (b % 2)) + 2 * BitAnd(a \div 2, b \div 2)

BitAndNot(a, b) == a - BitAnd(a, b)

\* What the machine reports: max_level is eax of CPUID leaf 0, bits holds
\* <<leaf, register, index>> for every bit CPUID sets, and xcr0 is XCR0.
IsBitSet(c, leaf, reg, index) == <<leaf, reg, index>> \in c.bits

FlagIf(c, leaf, reg, index, flag) ==
  IF IsBitSet(c, leaf, reg, index) THEN flag ELSE 0

\* The detection block of Supported(), instruction_sets.cc:76-131: the
\* flags it stores.
Detected(c) ==
  LET standard ==
        kInitialized
          + FlagIf(c, "1", "edx", 25, kSSE) + FlagIf(c, "1", "edx", 26, kSSE2)
          + FlagIf(c, "1", "ecx", 0, kSSE3) + FlagIf(c, "1", "ecx", 9, kSSSE3)
          + FlagIf(c, "1", "ecx", 19, kSSE41)
          + FlagIf(c, "1", "ecx", 20, kSSE42)
          + FlagIf(c, "1", "ecx", 23, kPOPCNT)
          + FlagIf(c, "1", "ecx", 12, kFMA)
          + FlagIf(c, "1", "ecx", 28, kAVX)
      has_osxsave == IsBitSet(c, "1", "ecx", 27)
      extended == standard + FlagIf(c, "80000001", "ecx", 5, kLZCNT)
      level7 ==
        IF c.max_level >= 7
        THEN extended + FlagIf(c, "7", "ebx", 3, kBMI)
               + FlagIf(c, "7", "ebx", 5, kAVX2)
               + FlagIf(c, "7", "ebx", 8, kBMI2)
        ELSE extended
      xmm == IF has_osxsave /\ BitAnd(c.xcr0, 2) = 0
             THEN BitAndNot(level7,
                    kSSE + kSSE2 + kSSE3 + kSSSE3 + kSSE41 + kSSE42 + kAVX
                      + kAVX2 + kFMA)
             ELSE level7
  IN  IF has_osxsave /\ BitAnd(c.xcr0, 4) = 0
      THEN BitAndNot(xmm, kAVX + kAVX2)
      ELSE xmm

\* Run with the order of its two tests exchanged.
RunTargetSSE41First(flags) ==
  IF BitAnd(flags, kGroupSSE41) = kGroupSSE41 THEN "SSE41"
  ELSE IF BitAnd(flags, kGroupAVX2) = kGroupAVX2 THEN "AVX2"
  ELSE "Portable"

\* Run, instruction_sets.h:68-78: the Target whose Func it invokes.
RunTarget(flags) ==
  IF BitAnd(flags, kGroupAVX2) = kGroupAVX2 THEN "AVX2"
  ELSE IF BitAnd(flags, kGroupSSE41) = kGroupSSE41 THEN "SSE41"
  ELSE "Portable"

\* A spin loop that returns whatever it has loaded.
SpinDoneAtOnce(flags) == TRUE

\* The test that ends the spin loop of Supported().
SpinDone(flags) == flags # 0

\* The machines of the model. A feature is reported by one CPUID bit.
Features ==
  {"SSE", "SSE2", "SSE3", "SSSE3", "SSE41", "SSE42", "POPCNT", "AVX", "AVX2",
   "FMA", "LZCNT", "BMI", "BMI2"}

FeatureBit(f) ==
  CASE f = "SSE" -> <<"1", "edx", 25>>
    [] f = "SSE2" -> <<"1", "edx", 26>>
    [] f = "SSE3" -> <<"1", "ecx", 0>>
    [] f = "SSSE3" -> <<"1", "ecx", 9>>
    [] f = "SSE41" -> <<"1", "ecx", 19>>
    [] f = "SSE42" -> <<"1", "ecx", 20>>
    [] f = "POPCNT" -> <<"1", "ecx", 23>>
    [] f = "FMA" -> <<"1", "ecx", 12>>
    [] f = "AVX" -> <<"1", "ecx", 28>>
    [] f = "LZCNT" -> <<"80000001", "ecx", 5>>
    [] f = "BMI" -> <<"7", "ebx", 3>>
    [] f = "AVX2" -> <<"7", "ebx", 5>>
    [] f = "BMI2" -> <<"7", "ebx", 8>>

Cpu(fs, osxsave, xcr0, max_level) ==
  [ max_level |-> max_level,
    bits |-> {FeatureBit(f) : f \in fs}
               \cup (IF osxsave THEN {<<"1", "ecx", 27>>} ELSE {}),
    xcr0 |-> xcr0 ]

\* Every set of features, without OSXSAVE and with it and the XMM and YMM
\* state enabled.
AllCpus ==
  {Cpu(fs, FALSE, 0, 7) : fs \in SUBSET Features}
    \cup {Cpu(fs, TRUE, 7, 7) : fs \in SUBSET Features}

\* All features or all but one, under every setting of OSXSAVE, of the XMM
\* and YMM bits of XCR0 and with leaf 7 present or not.
SomeCpus ==
  {Cpu(Features \ missing, osxsave, xcr0, max_level) :
     missing \in {{}, {"FMA"}, {"POPCNT"}, Features},
     osxsave \in BOOLEAN, xcr0 \in {1, 3, 5, 7}, max_level \in {6, 7}}

CallKinds == {"Supported", "Run"}

ISInit(cpus, n) ==
  /\ cpu \in cpus
  /\ init_counter = 0
  /\ instruction_set_bits_ = 0
  /\ threads = 1..n
  /\ is_pc = [t \in 1..n |-> "idle"]
  /\ is_kind = [t \in 1..n |-> "Supported"]
  /\ is_flags = [t \in 1..n |-> 0]
  /\ is_done = [t \in 1..n |-> 0]
  /\ invoked = [t \in 1..n |-> << >>]
  /\ returned = {}
  /\ detections = 0
  /\ hh_key = << >>
  /\ hh_bytes = << >>
  /\ HashIdle
  /\ CallIdle
  /\ CatIdle
  /\ ZeroIdle
  /\ PoolIdle
  /\ TreeIdle
  /\ FnIdle

\* A thread calls Supported(), directly or as the first statement of Run.
ISCall(t) ==
  /\ is_pc[t] = "idle"
  /\ is_done[t] < MaxCalls
  /\ \E kind \in CallKinds : is_kind' = [is_kind EXCEPT ![t] = kind]
  /\ is_pc' = [is_pc EXCEPT ![t] = "load"]
  /\ invoked' = [invoked EXCEPT ![t] = << >>]
  /\ UNCHANGED <<cpu, init_counter, instruction_set_bits_, threads, is_flags,
                 is_done, returned, detections>>
  /\ ISFrame

\* return flags: to the caller of Supported(), or into Run.
ISReturn(t, flags) ==
  /\ is_flags' = [is_flags EXCEPT ![t] = flags]
  /\ returned' = returned \cup {flags}
  /\ IF is_kind[t] = "Run"
     THEN /\ is_pc' = [is_pc EXCEPT ![t] = "run"]
          /\ UNCHANGED is_done
     ELSE /\ is_pc' = [is_pc EXCEPT ![t] = "idle"]
          /\ is_done' = [is_done EXCEPT ![t] = @ + 1]

\* A Supported() that returns what it has loaded without testing it.
ISLoadNoTest(t) ==
  /\ is_pc[t] = "load"
  /\ ISReturn(t, instruction_set_bits_)
  /\ UNCHANGED <<cpu, init_counter, instruction_set_bits_, threads, is_kind,
                 invoked, detections>>
  /\ ISFrame

\* flags = instruction_set_bits_.load(); if (flags != 0) return flags.
ISLoad(t) ==
  /\ is_pc[t] = "load"
  /\ IF instruction_set_bits_ # 0
     THEN ISReturn(t, instruction_set_bits_)
     ELSE /\ is_pc' = [is_pc EXCEPT ![t] = "fetch_add"]
          /\ is_flags' = [is_flags EXCEPT ![t] = 0]
          /\ UNCHANGED <<is_done, returned>>
  /\ UNCHANGED <<cpu, init_counter, instruction_set_bits_, threads, is_kind,
                 invoked, detections>>
  /\ ISFrame

\* A fetch_add after which every caller runs the detection.
ISFetchAddAllFirst(t) ==
  /\ is_pc[t] = "fetch_add"
  /\ init_counter' = init_counter + 1
  /\ is_pc' = [is_pc EXCEPT ![t] = "detect"]
  /\ UNCHANGED <<cpu, instruction_set_bits_, threads, is_kind, is_flags,
                 is_done, invoked, returned, detections>>
  /\ ISFrame

\* if (init_counter.fetch_add(1) != 0): spin, else detect.
ISFetchAdd(t) ==
  /\ is_pc[t] = "fetch_add"
  /\ init_counter' = init_counter + 1
  /\ is_pc' = [is_pc EXCEPT ![t] = IF init_counter # 0 THEN "spin"
                                   ELSE "detect"]
  /\ UNCHANGED <<cpu, instruction_set_bits_, threads, is_kind, is_flags,
                 is_done, invoked, returned, detections>>
  /\ ISFrame

\* One iteration of for (;;) { flags = load; if (flags != 0) return flags; }.
ISSpin(t) ==
  /\ is_pc[t] = "spin"
  /\ IF SpinDone(instruction_set_bits_)
     THEN ISReturn(t, instruction_set_bits_)
     ELSE UNCHANGED <<is_pc, is_flags, is_done, returned>>
  /\ UNCHANGED <<cpu, init_counter, instruction_set_bits_, threads, is_kind,
                 invoked, detections>>
  /\ ISFrame

\* flags = kInitialized and the CPUID/XCR0 detection block.
ISDetect(t) ==
  /\ is_pc[t] = "detect"
  /\ is_flags' = [is_flags EXCEPT ![t] = Detected(cpu)]
  /\ detections' = detections + 1
  /\ is_pc' = [is_pc EXCEPT ![t] = "store"]
  /\ UNCHANGED <<cpu, init_counter, instruction_set_bits_, threads, is_kind,
                 is_done, invoked, returned>>
  /\ ISFrame

\* A detection that returns its flags without storing them.
ISStoreLost(t) ==
  /\ is_pc[t] = "store"
  /\ ISReturn(t, is_flags[t])
  /\ UNCHANGED <<cpu, init_counter, instruction_set_bits_, threads, is_kind,
                 invoked, detections>>
  /\ ISFrame

\* instruction_set_bits_.store(flags); return flags.
ISStore(t) ==
  /\ is_pc[t] = "store"
  /\ instruction_set_bits_' = is_flags[t]
  /\ ISReturn(t, is_flags[t])
  /\ UNCHANGED <<cpu, init_counter, threads, is_kind, invoked, detections>>
  /\ ISFrame

\* Run after Supported(): Func<Target>()(a1..a5) for the target chosen.
ISRun(t) ==
  /\ is_pc[t] = "run"
  /\ invoked' = [invoked EXCEPT ![t] = Append(@, RunTarget(is_flags[t]))]
  /\ is_pc' = [is_pc EXCEPT ![t] = "idle"]
  /\ is_done' = [is_done EXCEPT ![t] = @ + 1]
  /\ UNCHANGED <<cpu, init_counter, instruction_set_bits_, threads, is_kind,
                 is_flags, returned, detections>>
  /\ ISFrame

ISNext ==
  \E t \in threads :
    \/ ISCall(t)
    \/ ISLoad(t)
    \/ ISFetchAdd(t)
    \/ ISSpin(t)
    \/ ISDetect(t)
    \/ ISStore(t)
    \/ ISRun(t)

\* One thread on any machine.
SpecRun == ISInit(AllCpus, 1) /\ [][ISNext]_vars

\* NumThreads threads on some machines.
SpecSupported == ISInit(SomeCpus, NumThreads) /\ [][ISNext]_vars

(***************************************************************************)
(* C3: a Run that has returned has invoked exactly one target, once: AVX2  *)
(* if the flags Supported() returned hold all of AVX, AVX2, FMA, LZCNT,    *)
(* BMI and BMI2; otherwise SSE41 if they hold all of SSE, SSE2, SSE3,      *)
(* SSSE3, SSE41 and POPCNT; otherwise Portable.                            *)
(***************************************************************************)
HasFlag(flags, flag) == (flags \div flag) % 2 = 1

RunInvokesOneTarget ==
  \A t \in threads :
    (is_pc[t] = "idle" /\ is_done[t] > 0 /\ is_kind[t] = "Run") =>
      invoked[t] =
        << IF \A flag \in {kAVX, kAVX2, kFMA, kLZCNT, kBMI, kBMI2} :
                HasFlag(is_flags[t], flag)
           THEN "AVX2"
           ELSE IF \A flag \in {kSSE, kSSE2, kSSE3, kSSSE3, kSSE41, kPOPCNT} :
                     HasFlag(is_flags[t], flag)
                THEN "SSE41"
                ELSE "Portable" >>

\* A Run has returned on a machine with every feature but FMA, where it
\* has invoked the SSE4.1 target.
RunInvokesOneTargetWitness ==
  /\ is_pc[1] = "idle"
  /\ is_done[1] = 1
  /\ is_kind[1] = "Run"
  /\ is_flags[1] = 16383 - kFMA
  /\ invoked[1] = <<"SSE41">>

(***************************************************************************)
(* C4: all the calls of Supported(), by whatever thread and in whatever    *)
(* interleaving, return the same bitmask.                                  *)
(***************************************************************************)
SupportedReturnsOneValue == Cardinality(returned) <= 1

\* Two threads have each returned from two calls; one of them ran the
\* detection and the other spun.
SupportedReturnsOneValueWitness ==
  /\ \A t \in {1, 2} : is_done[t] = 2 /\ is_pc[t] = "idle"
  /\ init_counter >= 2
  /\ returned = {Detected(cpu)}

(***************************************************************************)
(* highwayhash_target.cc: HighwayHash<Target>::operator(), called one time *)
(* after another, through InstructionSets::Run or on TargetPortable.       *)
(***************************************************************************)
\* A state object that keeps what the memory it is built in held.
ConstructStale(target, stale, k) ==
  IF stale = << >> THEN StateInit(target, k) ELSE stale

\* HHState<Target> state(key): the object built where stale was; the
\* constructor assigns v0, v1, mul0 and mul1.
Construct(target, stale, k) == StateInit(target, k)

\* The arguments of the calls.
CallInputs == {MakeInput("high", 33)}

\* A machine without any of the extensions, and one with all of them.
CallCpus == {Cpu({}, FALSE, 0, 7), Cpu(Features, TRUE, 7, 7)}

CallPaths == {"Run", "Portable"}

CallsInit ==
  /\ hh_key = << >>
  /\ hh_bytes = << >>
  /\ cpu \in CallCpus
  /\ init_counter = 0
  /\ instruction_set_bits_ = 0
  /\ threads = {}
  /\ is_pc = << >>
  /\ is_kind = << >>
  /\ is_flags = << >>
  /\ is_done = << >>
  /\ invoked = << >>
  /\ returned = {}
  /\ detections = 0
  /\ HashIdle
  /\ CallIdle
  /\ CatIdle
  /\ ZeroIdle
  /\ PoolIdle
  /\ TreeIdle
  /\ FnIdle

\* The caller calls the hash: through InstructionSets::Run, whose
\* Supported() runs the detection if no call has yet, or on TargetPortable;
\* operator() constructs the state.
HHCall ==
  /\ pc = "idle"
  /\ hh_calls < MaxHashCalls
  /\ \E k \in Keys, b \in CallInputs :
       /\ hh_key' = k
       /\ hh_bytes' = b
       /\ portable' = Construct("Portable", portable, k)
       /\ avx2' = Construct("AVX2", avx2, k)
  /\ \E path \in CallPaths :
       IF path = "Run"
       THEN LET flags == IF instruction_set_bits_ # 0
                         THEN instruction_set_bits_
                         ELSE Detected(cpu)
            IN  /\ instruction_set_bits_' = flags
                /\ init_counter' = IF instruction_set_bits_ # 0
                                   THEN init_counter ELSE init_counter + 1
                /\ detections' = IF instruction_set_bits_ # 0
                                 THEN detections ELSE detections + 1
                /\ hh_target' = RunTarget(flags)
       ELSE /\ hh_target' = "Portable"
            /\ UNCHANGED <<instruction_set_bits_, init_counter, detections>>
  /\ offset' = 0
  /\ pc' = "update"
  /\ reads' = [Portable |-> {}, AVX2 |-> {}]
  /\ calls' = << >>
  /\ UNCHANGED <<hh_hash, digests, hh_calls>>
  /\ UNCHANGED <<cpu, threads, is_pc, is_kind, is_flags, is_done, invoked,
                 returned>>
  /\ HashFrame

\* operator() returns: the caller has the result in *hash. The memory of
\* the state object keeps its bytes.
HHReturn ==
  /\ pc = "done"
  /\ digests' = digests \cup
       {<<hh_key, hh_bytes, 64 * Len(hh_hash[hh_target]), hh_hash[hh_target]>>}
  /\ hh_calls' = hh_calls + 1
  /\ pc' = "idle"
  /\ UNCHANGED <<hh_key, hh_bytes, offset, portable, avx2, hh_hash, reads,
                 calls, hh_target>>
  /\ UNCHANGED isVars
  /\ HashFrame

CallsNext == HHCall \/ HHUpdate \/ HHUpdateRemainder \/ HHFinalize \/ HHReturn

SpecCalls == CallsInit /\ [][CallsNext]_vars

(***************************************************************************)
(* C8: two calls of the one-shot hash with the same key, bytes and size    *)
(* and the same result type return the same digest, whatever calls were    *)
(* made before or between them and whether or not the dispatcher had been  *)
(* initialised.                                                            *)
(***************************************************************************)
HashIsFunction ==
  \A r1 \in digests : \A r2 \in digests :
    (r1[1] = r2[1] /\ r1[2] = r2[2] /\ r1[3] = r2[3]) => r1[4] = r2[4]

\* Three calls with the same arguments have returned one and the same
\* 256-bit digest: the dispatcher was initialised by one of them, which
\* ran the AVX2 target, and the last ran the portable target.
HashIsFunctionWitness ==
  /\ pc = "idle"
  /\ hh_calls = 3
  /\ Cardinality(digests) = 1
  /\ \E r \in digests : r[3] = 256
  /\ detections = 1
  /\ RunTarget(instruction_set_bits_) = "AVX2"
  /\ hh_target = "Portable"
(***************************************************************************)
(* data_parallel.h: ThreadPool.                                            *)
(***************************************************************************)
\* A WorkerCommand is a uint64_t: here the pair <<upper, lower>> of its
\* 32-bit halves, each as the int that RunRange makes of it.
kWorkerWait == <<0, 0>>

kWorkerExit == <<-1, -1>>

\* (WorkerCommand(end) << 32) + begin in Run.
WorkerCommand(begin, end) == <<end, begin>>

\* command & 0xFFFFFFFF and command >> 32 in RunRange.
RangeBegin(command) == command[2]

RangeEnd(command) == command[1]

\* worker_start_command_ has no initializer: until StartWorkers writes it, a
\* read yields an indeterminate value, here any of these.
Indeterminate == << >>

ReadCommand(value) ==
  IF value = Indeterminate
  THEN {kWorkerWait, kWorkerExit}
         \cup {WorkerCommand(b, e) : b \in {0}, e \in 1..MaxEnd}
  ELSE {value}

\* workers_ready_cv_.notify_one(): the owner is its only waiter.
NotifyOne(wait) == IF wait = "blocked" THEN "notified" ELSE wait

\* A notify_all that wakes one waiter only.
NotifyFirst(pcs) ==
  [w \in DOMAIN pcs |->
     IF pcs[w] = "wait" /\ \A u \in DOMAIN pcs : u < w => pcs[u] # "wait"
     THEN "woken" ELSE pcs[w]]

\* worker_start_cv_.notify_all(): every worker blocked in wait is woken.
NotifyAll(pcs) ==
  [w \in DOMAIN pcs |-> IF pcs[w] = "wait" THEN "woken" ELSE pcs[w]]

Min(a, b) == IF a < b THEN a ELSE b

Max(a, b) == IF a > b THEN a ELSE b

\* The ranges passed to Run: 0 <= begin <= end.
Ranges == {r \in (0..MaxEnd) \X (0..MaxEnd) : r[1] <= r[2]}

\* The constructor has started the threads and is about to wait for them.
PoolInit ==
  /\ num_threads_ \in 1..MaxWorkers
  /\ workers_ready_ = 0
  /\ worker_start_command_ = Indeterminate
  /\ task_ = "empty"
  /\ num_reserved_ = 0
  /\ tp_pc = "ctor_barrier"
  /\ tp_command = << >>
  /\ tp_wait = "no"
  /\ w_pc = [w \in 1..num_threads_ |-> "ready"]
  /\ w_command = [w \in 1..num_threads_ |-> << >>]
  /\ w_num_reserved = [w \in 1..num_threads_ |-> 0]
  /\ w_my_size = [w \in 1..num_threads_ |-> 0]
  /\ w_i = [w \in 1..num_threads_ |-> 0]
  /\ invocations = [i \in 0..(MaxEnd - 1) |-> 0]
  /\ tp_runs = 0
  /\ spurious = 0
  /\ w_executed = [w \in 1..num_threads_ |-> 0]
  /\ hh_key = << >>
  /\ hh_bytes = << >>
  /\ HashIdle
  /\ CallIdle
  /\ CatIdle
  /\ ISIdle
  /\ ZeroIdle
  /\ TreeIdle
  /\ FnIdle

\* WorkersReadyBarrier, in the constructor and in Run: under the mutex,
\* either the predicate holds and workers_ready_ is reset, or the owner
\* blocks in workers_ready_cv_.wait until it is notified.
TPBarrier ==
  /\ tp_pc \in {"ctor_barrier", "run_barrier"}
  /\ tp_wait \in {"no", "notified"}
  /\ IF workers_ready_ = num_threads_
     THEN /\ workers_ready_' = 0
          /\ tp_wait' = "no"
          /\ tp_pc' = "idle"
          /\ tp_runs' = IF tp_pc = "run_barrier" THEN Min(tp_runs + 1, MaxRuns)
                        ELSE tp_runs
     ELSE /\ tp_wait' = "blocked"
          /\ UNCHANGED <<workers_ready_, tp_pc, tp_runs>>
  /\ UNCHANGED <<num_threads_, worker_start_command_, task_, num_reserved_,
                 tp_command, w_pc, w_command, w_num_reserved, w_my_size, w_i,
                 invocations, spurious,
                 w_executed>>
  /\ PoolFrame

\* Run(begin, end, func) up to its call of StartWorkers.
TPRun(begin, end) ==
  /\ tp_pc = "idle"
  /\ tp_command' = WorkerCommand(begin, end)
  /\ invocations' = [i \in DOMAIN invocations |-> 0]
  /\ w_executed' = [w \in DOMAIN w_executed |-> 0]
  /\ IF begin = end
     THEN /\ tp_runs' = Min(tp_runs + 1, MaxRuns)
          /\ UNCHANGED <<task_, num_reserved_, tp_pc>>
     ELSE /\ task_' = "func"
          /\ num_reserved_' = 0
          /\ tp_pc' = "run_start"
          /\ UNCHANGED tp_runs
  /\ UNCHANGED <<num_threads_, workers_ready_, worker_start_command_, tp_wait,
                 w_pc, w_command, w_num_reserved, w_my_size, w_i, spurious>>
  /\ PoolFrame

\* ~ThreadPool up to its call of StartWorkers.
TPDestroy ==
  /\ tp_pc = "idle"
  /\ tp_command' = kWorkerExit
  /\ tp_pc' = "dtor_start"
  /\ UNCHANGED <<num_threads_, workers_ready_, worker_start_command_, task_,
                 num_reserved_, tp_wait, w_pc, w_command, w_num_reserved,
                 w_my_size, w_i, invocations, tp_runs, spurious,
                 w_executed>>
  /\ PoolFrame

\* A worker whose wait has returned and who has not read the command yet
\* is at "woken", or at "spurious" when the wait returned without a
\* notification and StartWorkers has not been called since: the command it
\* will read is then not a new one.
Awake == {"woken", "spurious"}

CommandWritten(pcs) ==
  [w \in DOMAIN pcs |-> IF pcs[w] = "spurious" THEN "woken" ELSE pcs[w]]

\* StartWorkers: worker_start_command_ = worker_command under the mutex.
TPStartWorkers ==
  /\ tp_pc \in {"run_start", "dtor_start"}
  /\ worker_start_command_' = tp_command
  /\ w_pc' = CommandWritten(w_pc)
  /\ tp_pc' = IF tp_pc = "run_start" THEN "run_notify" ELSE "dtor_notify"
  /\ UNCHANGED <<num_threads_, workers_ready_, task_, num_reserved_,
                 tp_command, tp_wait, w_command, w_num_reserved,
                 w_my_size, w_i, invocations, tp_runs, spurious,
                 w_executed>>
  /\ PoolFrame

\* StartWorkers: worker_start_cv_.notify_all() after the unlock.
TPNotifyAll ==
  /\ tp_pc \in {"run_notify", "dtor_notify"}
  /\ w_pc' = NotifyAll(w_pc)
  /\ tp_pc' = IF tp_pc = "run_notify" THEN "run_barrier" ELSE "join"
  /\ UNCHANGED <<num_threads_, workers_ready_, worker_start_command_, task_,
                 num_reserved_, tp_command, tp_wait, w_command,
                 w_num_reserved, w_my_size, w_i, invocations, tp_runs,
                 spurious,
                 w_executed>>
  /\ PoolFrame

\* ~ThreadPool: thread.join() returns for every thread.
TPJoin ==
  /\ tp_pc = "join"
  /\ \A w \in DOMAIN w_pc : w_pc[w] = "exited"
  /\ tp_pc' = "done"
  /\ UNCHANGED <<num_threads_, workers_ready_, worker_start_command_, task_,
                 num_reserved_, tp_command, tp_wait, w_pc, w_command,
                 w_num_reserved, w_my_size, w_i, invocations, tp_runs,
                 spurious,
                 w_executed>>
  /\ PoolFrame

\* A worker exists and the process has not been terminated.
Running(w) == w \in DOMAIN w_pc /\ tp_pc # "terminated"

\* ThreadFunc, the head of the loop: under the mutex, ++workers_ready_,
\* notify_one if it is the last, and worker_start_cv_.wait(lock).
WReady(w) ==
  /\ Running(w)
  /\ w_pc[w] = "ready"
  /\ workers_ready_' = workers_ready_ + 1
  /\ tp_wait' = IF workers_ready_ + 1 = num_threads_ THEN NotifyOne(tp_wait)
                ELSE tp_wait
  /\ w_pc' = [w_pc EXCEPT ![w] = "wait"]
  /\ UNCHANGED <<num_threads_, worker_start_command_, task_, num_reserved_,
                 tp_pc, tp_command, w_command, w_num_reserved, w_my_size,
                 w_i, invocations, tp_runs, spurious,
                 w_executed>>
  /\ PoolFrame

\* ThreadFunc after wait returns, with the mutex again: the switch on
\* worker_start_command_.
WCommand(w) ==
  /\ Running(w)
  /\ w_pc[w] \in Awake
  /\ \E command \in ReadCommand(worker_start_command_) :
       IF command = kWorkerWait
       THEN /\ w_pc' = [w_pc EXCEPT ![w] = "wait"]
            /\ UNCHANGED w_command
       ELSE IF command = kWorkerExit
       THEN /\ w_pc' = [w_pc EXCEPT ![w] = "exited"]
            /\ UNCHANGED w_command
       ELSE /\ w_pc' = [w_pc EXCEPT ![w] = "range"]
            /\ w_command' = [w_command EXCEPT ![w] = command]
  /\ UNCHANGED <<num_threads_, workers_ready_, worker_start_command_, task_,
                 num_reserved_, tp_pc, tp_command, tp_wait, w_num_reserved,
                 w_my_size, w_i, invocations, tp_runs, spurious,
                 w_executed>>
  /\ PoolFrame

NumTasks(command) == RangeEnd(command) - RangeBegin(command)

\* RunRange returns and the body of the loop in ThreadFunc ends: their
\* locals are gone, and the worker is at the head of the loop again.
Return(w) ==
  /\ w_pc' = [w_pc EXCEPT ![w] = "ready"]
  /\ w_command' = [w_command EXCEPT ![w] = << >>]
  /\ w_num_reserved' = [w_num_reserved EXCEPT ![w] = 0]
  /\ w_my_size' = [w_my_size EXCEPT ![w] = 0]
  /\ w_i' = [w_i EXCEPT ![w] = 0]

\* RunRange: num_reserved = num_reserved_.load() and the test of the while.
WRange(w) ==
  /\ Running(w)
  /\ w_pc[w] = "range"
  /\ IF num_reserved_ < NumTasks(w_command[w])
     THEN /\ w_num_reserved' = [w_num_reserved EXCEPT ![w] = num_reserved_]
          /\ w_pc' = [w_pc EXCEPT ![w] = "reserve"]
          /\ UNCHANGED <<w_command, w_my_size, w_i>>
     ELSE Return(w)
  /\ UNCHANGED <<num_threads_, workers_ready_, worker_start_command_, task_,
                 num_reserved_, tp_pc, tp_command, tp_wait, invocations,
                 tp_runs, spurious,
                 w_executed>>
  /\ PoolFrame

\* RunRange: my_size and the compare_exchange_weak; on failure num_reserved
\* is reloaded and the while is tested again.
WReserve(w) ==
  /\ Running(w)
  /\ w_pc[w] = "reserve"
  /\ LET num_remaining == NumTasks(w_command[w]) - w_num_reserved[w]
         my_size == Max(num_remaining \div num_threads_, 1)
     IN  IF num_reserved_ = w_num_reserved[w]
         THEN /\ num_reserved_' = w_num_reserved[w] + my_size
              /\ w_my_size' = [w_my_size EXCEPT ![w] = my_size]
              /\ w_i' = [w_i EXCEPT ![w] = 0]
              /\ w_pc' = [w_pc EXCEPT ![w] = "task"]
              /\ UNCHANGED <<w_num_reserved, w_command>>
         ELSE /\ IF num_reserved_ < NumTasks(w_command[w])
                 THEN /\ w_num_reserved' =
                           [w_num_reserved EXCEPT ![w] = num_reserved_]
                      /\ UNCHANGED <<w_pc, w_command, w_my_size, w_i>>
                 ELSE Return(w)
              /\ UNCHANGED num_reserved_
  /\ UNCHANGED <<num_threads_, workers_ready_, worker_start_command_, task_,
                 tp_pc, tp_command, tp_wait, invocations, tp_runs, spurious,
                 w_executed>>
  /\ PoolFrame

\* RunRange: self->task_(begin + num_reserved + i) and ++i; calling an empty
\* std::function throws, which terminates the process.
WTask(w) ==
  /\ Running(w)
  /\ w_pc[w] = "task"
  /\ IF task_ = "empty"
     THEN /\ tp_pc' = "terminated"
          /\ UNCHANGED <<invocations, w_executed, w_i, w_pc, w_my_size>>
     ELSE /\ invocations' =
               [invocations EXCEPT
                  ![RangeBegin(w_command[w]) + w_num_reserved[w] + w_i[w]] =
                     @ + 1]
          /\ w_executed' = [w_executed EXCEPT ![w] = @ + 1]
          /\ IF w_i[w] + 1 < w_my_size[w]
             THEN /\ w_i' = [w_i EXCEPT ![w] = @ + 1]
                  /\ UNCHANGED <<w_pc, w_my_size>>
             ELSE /\ w_i' = [w_i EXCEPT ![w] = 0]
                  /\ w_my_size' = [w_my_size EXCEPT ![w] = 0]
                  /\ w_pc' = [w_pc EXCEPT ![w] = "range"]
          /\ UNCHANGED tp_pc
  /\ UNCHANGED <<num_threads_, workers_ready_, worker_start_command_, task_,
                 num_reserved_, tp_command, tp_wait, w_command,
                 w_num_reserved, tp_runs, spurious>>
  /\ PoolFrame

\* worker_start_cv_.wait(lock) returns although nobody has notified.
WSpurious(w) ==
  /\ Running(w)
  /\ w_pc[w] = "wait"
  /\ spurious < MaxSpurious
  /\ spurious' = spurious + 1
  /\ w_pc' = [w_pc EXCEPT ![w] = "spurious"]
  /\ UNCHANGED <<num_threads_, workers_ready_, worker_start_command_, task_,
                 num_reserved_, tp_pc, tp_command, tp_wait, w_command,
                 w_num_reserved, w_my_size, w_i, invocations, tp_runs,
                 w_executed>>
  /\ PoolFrame

\* workers_ready_cv_.wait returns although nobody has notified; its
\* predicate is then tested again.
TPSpurious ==
  /\ tp_pc \in {"ctor_barrier", "run_barrier"}
  /\ tp_wait = "blocked"
  /\ spurious < MaxSpurious
  /\ spurious' = spurious + 1
  /\ tp_wait' = "notified"
  /\ UNCHANGED <<num_threads_, workers_ready_, worker_start_command_, task_,
                 num_reserved_, tp_pc, tp_command, w_pc, w_command,
                 w_num_reserved, w_my_size, w_i, invocations, tp_runs,
                 w_executed>>
  /\ PoolFrame

\* The steps the owner takes by itself once it is in a call, and the steps
\* of a worker.
OwnerStep == TPBarrier \/ TPStartWorkers \/ TPNotifyAll \/ TPJoin

WorkerStep(w) ==
  WReady(w) \/ WCommand(w) \/ WRange(w) \/ WReserve(w) \/ WTask(w)

PoolNext ==
  \/ \E r \in Ranges : TPRun(r[1], r[2])
  \/ TPDestroy
  \/ OwnerStep
  \/ \E w \in 1..MaxWorkers : WorkerStep(w)

SpuriousNext ==
  \/ PoolNext
  \/ TPSpurious
  \/ \E w \in 1..MaxWorkers : WSpurious(w)

\* Every thread that can take a step eventually takes one.
FairScheduling ==
  /\ WF_vars(OwnerStep)
  /\ \A w \in 1..MaxWorkers : WF_vars(WorkerStep(w))

\* Condition variables that wake only when notified, and ones that may also
\* wake spuriously.
SpecPool == PoolInit /\ [][PoolNext]_vars /\ FairScheduling

SpecPoolSpurious == PoolInit /\ [][SpuriousNext]_vars /\ FairScheduling

\* The owner is inside Run, after its early return.
InRun == tp_pc \in {"run_start", "run_notify", "run_barrier"}

\* The range [begin, end) of the last call of Run.
InRange(i) == RangeBegin(tp_command) <= i /\ i < RangeEnd(tp_command)

(***************************************************************************)
(* C5: when a call of Run has returned, func(i) has been invoked exactly   *)
(* once for every i in [begin, end) and not at all for any other i.        *)
(***************************************************************************)
RunExactlyOnce ==
  (tp_pc = "idle" /\ tp_runs > 0) =>
    \A i \in DOMAIN invocations :
      invocations[i] = IF InRange(i) THEN 1 ELSE 0

(***************************************************************************)
(* C9: under fair scheduling and without spurious wakeups, a call of Run   *)
(* that has started returns.                                               *)
(***************************************************************************)
RunReturns == InRun ~> (tp_pc = "idle")

\* A second Run, of two tasks on two workers, has returned with both tasks
\* done.
RunReturnsWitness ==
  /\ tp_pc = "idle"
  /\ tp_runs = 2
  /\ num_threads_ = 2
  /\ tp_command = WorkerCommand(0, 2)
  /\ invocations[0] = 1
  /\ invocations[1] = 1
  /\ \A w \in DOMAIN w_pc : w_pc[w] = "wait"

(***************************************************************************)
(* C10: once the destructor has begun, every worker leaves ThreadFunc and  *)
(* the joins return.                                                       *)
(***************************************************************************)
DestructorTerminates == (tp_pc = "dtor_start") ~> (tp_pc = "done")

(***************************************************************************)
(* sip_hash.h: SipHashState. ScalarSipTreeHashState                        *)
(* (scalar_sip_tree_hash.cc:36-99) has the same Update, Finalize,          *)
(* RotateLeft and Compress, on a packet that is already a uint64.          *)
(***************************************************************************)
\* The bound of the inputs of the tree hashes, the kMaxSize of VerifyEqual.
MaxTreeSize == 128

\* The bound of the inputs of SipHash.
MaxSipSize == 64

\* sizeof(uint64), the packet of SipHashState.
kSipPacketSize == 8

\* The constants XORed with the key in v0, v1, v2, v3.
sip_init ==
  << Lit64(29551, 28005, 28787, 25973),   \* 0x736f6d6570736575
     Lit64(25711, 29281, 28260, 28525),   \* 0x646f72616e646f6d
     Lit64(27769, 26469, 28261, 29281),   \* 0x6c7967656e657261
     Lit64(29797, 25698, 31092, 25971) >> \* 0x7465646279746573

\* SipHashState(key): key is two uint64.
SipInit(key) ==
  [ v0 |-> Xor(sip_init[1], key[1]),
    v1 |-> Xor(sip_init[2], key[2]),
    v2 |-> Xor(sip_init[3], key[1]),
    v3 |-> Xor(sip_init[4], key[2]) ]

\* RotateLeft<bits>(v): (v << bits) | (v >> (64 - bits)).
SipRotateLeft(v, bits) == Or(Shl(v, bits), Shr(v, 64 - bits))

\* One iteration of the loop of Compress.
SipRound(s) ==
  Let(Add(s.v0, s.v1), LAMBDA a0 :
  Let(Add(s.v2, s.v3), LAMBDA a2 :
  Let(Xor(SipRotateLeft(s.v1, 13), a0), LAMBDA b1 :
  Let(Xor(SipRotateLeft(s.v3, 16), a2), LAMBDA b3 :
  Let(SipRotateLeft(a0, 32), LAMBDA r0 :
  Let(Add(a2, b1), LAMBDA c2 :
  Let(Add(r0, b3), LAMBDA c0 :
  Let(Xor(SipRotateLeft(b1, 17), c2), LAMBDA d1 :
  Let(Xor(SipRotateLeft(b3, 21), c0), LAMBDA d3 :
  Let(SipRotateLeft(c2, 32), LAMBDA r2 :
    [v0 |-> c0, v1 |-> d1, v2 |-> r2, v3 |-> d3]))))))))))

RECURSIVE SipCompress(_, _)
SipCompress(s, rounds) ==
  IF rounds = 0 THEN s
  ELSE Let(SipRound(s), LAMBDA t : SipCompress(t, rounds - 1))

\* Update: v3 ^= packet; Compress<2>(); v0 ^= packet.
SipUpdate(s, packet) ==
  Let(SipCompress([s EXCEPT !.v3 = Xor(s.v3, packet)], 2), LAMBDA t :
    [t EXCEPT !.v0 = Xor(t.v0, packet)])

\* Finalize: v2 ^= 0xFF; Compress<4>(); (v0 ^ v1) ^ (v2 ^ v3).
SipFinalize(s) ==
  Let(SipCompress([s EXCEPT !.v2 = Xor(s.v2, U64(255))], 4), LAMBDA t :
    Xor(Xor(t.v0, t.v1), Xor(t.v2, t.v3)))

\* ReduceSipTreeHash(key, hashes): Update with each of the kNumLanes
\* hashes, then Finalize.
RECURSIVE SipUpdateAll(_, _, _)
SipUpdateAll(s, hashes, i) ==
  IF i > Len(hashes) THEN s
  ELSE Let(SipUpdate(s, hashes[i]), LAMBDA t : SipUpdateAll(t, hashes, i + 1))

ReduceSipTreeHash(key, hashes) ==
  SipFinalize(SipUpdateAll(SipInit(key), hashes, 1))

\* A final packet without the length in its last byte.
SipFinalPacketNoLength(size, remaining_bytes) ==
  Memcpy(Zero(8), 0, remaining_bytes)

\* PaddedUpdate<SipHashState>: the final packet is the remaining bytes, then
\* zeros, then size & 0xFF in its last byte.
SipFinalPacket(size, remaining_bytes) ==
  Memcpy(Memcpy(Zero(kSipPacketSize), 0, remaining_bytes),
         kSipPacketSize - 1, <<size % 256>>)

\* memcpy(&reduce_key, &key, sizeof(reduce_key)): the first two key lanes.
ReduceKey(key) == <<key[1], key[2]>>

(***************************************************************************)
(* scalar_sip_tree_hash.cc: ScalarSipTreeHash.                             *)
(***************************************************************************)
\* A lane state whose key is keys[lane] alone, not XORed with
\* kNumLanes | lane.
ScalarSipTreeInitNoLane(keys, lane) ==
  LET key == keys[lane + 1]
  IN  [ v0 |-> Xor(sip_init[1], key),
        v1 |-> Xor(sip_init[2], key),
        v2 |-> Xor(sip_init[3], key),
        v3 |-> Xor(sip_init[4], key) ]

\* ScalarSipTreeHashState(keys, lane), lane counted from 0:
\* key = keys[lane] ^ (kNumLanes | lane).
ScalarSipTreeInit(keys, lane) ==
  LET key == Xor(keys[lane + 1], U64(kNumLanes + lane))
  IN  [ v0 |-> Xor(sip_init[1], key),
        v1 |-> Xor(sip_init[2], key),
        v2 |-> Xor(sip_init[3], key),
        v3 |-> Xor(sip_init[4], key) ]

\* The four lane states after construction.
ScalarSipTreeStates(keys) ==
  ForLanes(LAMBDA l : ScalarSipTreeInit(keys, l - 1))

\* One iteration of the packet loop: lane l is updated with the l-th
\* uint64 of the 32-byte packet.
ScalarSipTreeUpdate(states, packet) ==
  ForLanes(LAMBDA l : SipUpdate(states[l], Elem(packet, 8, l - 1)))

\* packet4: remainder << 24, plus the remainder_mod4 trailing bytes as
\* unsigned char, byte i shifted left by 8 * i bits. value is the uint32
\* that is shifted left by 24.
Packet4(value, final_bytes) ==
  LET b(i) == IF i <= Len(final_bytes) THEN final_bytes[i] ELSE 0
  IN  <<b(1), b(2), b(3), value % 256>>

\* The final 32-byte packet (scalar_sip_tree_hash.cc:122-133): the whole
\* uint32 of the remaining bytes, zeros, and packet4 in the last four bytes.
ScalarSipFinalPacket(remaining) ==
  LET remainder == Len(remaining)
      remainder_mod4 == remainder % 4
      whole == remainder - remainder_mod4
      packet4 == Packet4(remainder, SubSeq(remaining, whole + 1, remainder))
  IN  Memcpy(Memcpy(Zero(kPacketSize), 0, SubSeq(remaining, 1, whole)),
             kPacketSize - 4, packet4)

\* The end of ScalarSipTreeHash: the lanes' Finalize, then the reduction.
ScalarSipTreeResult(keys, states) ==
  Let(ForLanes(LAMBDA l : SipFinalize(states[l])), LAMBDA hashes :
    ReduceSipTreeHash(ReduceKey(keys), hashes))

(***************************************************************************)
(* sip_tree_hash.cc: the AVX2 SipTreeHash.                                 *)
(***************************************************************************)
\* 64-bit element n of the result is element (imm >> 2n) & 3 of a.
mm256_permute4x64_epi64(a, imm) ==
  ElemsFrom(LAMBDA n : Elem(a, 8, (imm \div Pow2(2 * n)) % 4), 0, 4)

\* Sign-extends each of the low eight bytes of a to 32 bits.
mm256_cvtepi8_epi32(a) ==
  ElemsFrom(LAMBDA n : LET c == a[n + 1]
                           f == IF c >= 128 THEN 255 ELSE 0
                       IN  <<c, f, f, f>>,
            0, 8)

\* The eight-element _mm_maskload_epi32.
mm256_maskload_epi32(mem, mask) ==
  ElemsFrom(LAMBDA n : IF MaskSet(mask, n) THEN Elem(mem, 4, n) ELSE Zero(4),
            0, 8)

mm_cvtsi32_si128(a) == a \o Zero(12)

mm256_broadcastq_epi64(a) == ElemsFrom(LAMBDA n : Elem(a, 8, 0), 0, 4)

\* 32-bit element n is taken from b if bit n of imm is set, else from a.
mm256_blend_epi32(a, b, imm) ==
  ElemsFrom(LAMBDA n : IF (imm \div Pow2(n)) % 2 = 1
                       THEN Elem(b, 4, n) ELSE Elem(a, 4, n),
            0, 8)

\* explicit V256(T i): broadcasts i to all lanes (vec2.h:270).
V4x64UBroadcast(i) == mm256_broadcastq_epi64(mm_cvtsi64_si128(i))

\* SipTreeHashState(keys), sip_tree_hash.cc:40-50.
AVX2SipTreeInit(keys) ==
  LET init == V4x64U(sip_init[4], sip_init[3], sip_init[2], sip_init[1])
      lanes == V4x64U(U64(7), U64(6), U64(5), U64(4))
      key == mm256_xor_si256(LoadUnalignedLanes(keys), lanes)
  IN  [ v0 |-> mm256_xor_si256(mm256_permute4x64_epi64(init, 0), key),
        v1 |-> mm256_xor_si256(mm256_permute4x64_epi64(init, 85), key),
        v2 |-> mm256_xor_si256(mm256_permute4x64_epi64(init, 170), key),
        v3 |-> mm256_xor_si256(mm256_permute4x64_epi64(init, 255), key) ]

\* RotateLeft16: a byte shuffle within each 64-bit element.
AVX2SipRotateLeft16(v) ==
  mm256_shuffle_epi8(v, V4x64U(Lit64(3340, 2826, 2312, 3854),
                               Lit64(1284, 770, 256, 1798),
                               Lit64(3340, 2826, 2312, 3854),
                               Lit64(1284, 770, 256, 1798)))

\* RotateLeft<bits>: (v << bits) | (v >> (64 - bits)).
AVX2SipRotateLeft(v, bits) ==
  mm256_or_si256(mm256_slli_epi64(v, bits), mm256_srli_epi64(v, 64 - bits))

\* One iteration of the loop of Compress, sip_tree_hash.cc:92-109.
AVX2SipRound(s) ==
  Let(mm256_add_epi64(s.v0, s.v1), LAMBDA a0 :
  Let(mm256_add_epi64(s.v2, s.v3), LAMBDA a2 :
  Let(mm256_xor_si256(AVX2SipRotateLeft(s.v1, 13), a0), LAMBDA b1 :
  Let(mm256_xor_si256(AVX2SipRotateLeft16(s.v3), a2), LAMBDA b3 :
  Let(AVX2Rotate64By32(a0), LAMBDA r0 :
  Let(mm256_add_epi64(a2, b1), LAMBDA c2 :
  Let(mm256_add_epi64(r0, b3), LAMBDA c0 :
  Let(mm256_xor_si256(AVX2SipRotateLeft(b1, 17), c2), LAMBDA d1 :
  Let(mm256_xor_si256(AVX2SipRotateLeft(b3, 21), c0), LAMBDA d3 :
  Let(AVX2Rotate64By32(c2), LAMBDA r2 :
    [v0 |-> c0, v1 |-> d1, v2 |-> r2, v3 |-> d3]))))))))))

RECURSIVE AVX2SipCompress(_, _)
AVX2SipCompress(s, rounds) ==
  IF rounds = 0 THEN s
  ELSE Let(AVX2SipRound(s), LAMBDA t : AVX2SipCompress(t, rounds - 1))

AVX2SipTreeUpdate(s, packet) ==
  Let(AVX2SipCompress([s EXCEPT !.v3 = mm256_xor_si256(s.v3, packet)], 2),
      LAMBDA t : [t EXCEPT !.v0 = mm256_xor_si256(t.v0, packet)])

AVX2SipTreeFinalize(s) ==
  Let(AVX2SipCompress(
        [s EXCEPT !.v2 = mm256_xor_si256(s.v2, V4x64UBroadcast(U64(255)))], 4),
      LAMBDA t : mm256_xor_si256(mm256_xor_si256(t.v0, t.v1),
                                 mm256_xor_si256(t.v2, t.v3)))

\* The mask of the masked load of the final packet: 0x00FFFFFFFFFFFFFF >>
\* ((7 - remaining_32) * 8), each byte sign-extended to a uint32.
FinalPacketMask(remaining_32) ==
  mm256_cvtepi8_epi32(
    mm_cvtsi64_si128(Shr(Lit64(255, 65535, 65535, 65535),
                         (7 - remaining_32) * 8)))

\* LoadFinalPacket32(bytes, size, remainder), sip_tree_hash.cc:124-159;
\* remaining holds the remainder accessible bytes.
LoadFinalPacket32(remaining) ==
  LET remainder == Len(remaining)
      remaining_32 == remainder \div 4
      packet28 == mm256_maskload_epi32(remaining,
                                       FinalPacketMask(remaining_32))
      packet4 == Packet4(remainder,
                         SubSeq(remaining, remaining_32 * 4 + 1, remainder))
      v4 == mm256_broadcastd_epi32(mm_cvtsi32_si128(packet4))
  IN  mm256_blend_epi32(packet28, v4, 128)

\* The end of SipTreeHash: Store(state.Finalize(), hashes), the reduction.
AVX2SipTreeResult(keys, s) ==
  Let(LanesFromBytes(AVX2SipTreeFinalize(s)), LAMBDA hashes :
    ReduceSipTreeHash(ReduceKey(keys), hashes))

(***************************************************************************)
(* scalar_highway_tree_hash.cc: ScalarHighwayTreeHash.                     *)
(***************************************************************************)
\* The init0 and init1 of the constructor are those of hh_portable.h, in
\* the same order.
ScalarHTInit(keys) ==
  LET permuted_keys == << PortableRotate64By32(keys[3]),
                          PortableRotate64By32(keys[4]),
                          PortableRotate64By32(keys[1]),
                          PortableRotate64By32(keys[2]) >>
  IN  [ v0   |-> ForLanes(LAMBDA l : Xor(portable_init0[l], keys[l])),
        v1   |-> ForLanes(LAMBDA l : Xor(portable_init1[l], permuted_keys[l])),
        mul0 |-> portable_init0,
        mul1 |-> portable_init1 ]

mask32 == <<255, 255, 255, 255, 0, 0, 0, 0>>

\* The body of the first loop of Update for one lane: the new v0, v1, mul0
\* and mul1 of the lane.
ScalarHTUpdateLane(v0, v1, mul0, mul1, packet) ==
  Let(Add(Add(v1, packet), mul0), LAMBDA a1 :
  Let(And(v0, mask32), LAMBDA v0_32 :
  Let(And(a1, mask32), LAMBDA v1_32 :
  Let(Xor(mul0, Mul(v0_32, Shr(a1, 32))), LAMBDA m0 :
  Let(Add(v0, mul1), LAMBDA a0 :
  Let(Xor(mul1, Mul(v1_32, Shr(a0, 32))), LAMBDA m1 :
    [v0 |-> a0, v1 |-> a1, mul0 |-> m0, mul1 |-> m1]))))))

\* ZipperMerge(mul0, v0): byte half + i of the result is byte
\* half + zipper_source[i] of the source.
zipper_source == <<3, 12, 2, 5, 14, 1, 15, 0, 11, 4, 10, 13, 9, 6, 8, 7>>

ScalarZipperMerge(lanes) ==
  LET src == BytesFromLanes(lanes)
  IN  LanesFromBytes(
        Bytes([i \in 1..kPacketSize |->
                 src[16 * ((i - 1) \div 16)
                       + zipper_source[((i - 1) % 16) + 1] + 1]]))

\* Update(packets), packets being four uint64.
ScalarHTUpdate(s, packets) ==
  Let(ForLanes(LAMBDA l : ScalarHTUpdateLane(s.v0[l], s.v1[l], s.mul0[l],
                                             s.mul1[l], packets[l])),
      LAMBDA t :
  Let(ScalarZipperMerge(ForLanes(LAMBDA l : t[l].v1)), LAMBDA merged1 :
  Let(ForLanes(LAMBDA l : Add(t[l].v0, merged1[l])), LAMBDA v0 :
  Let(ScalarZipperMerge(v0), LAMBDA merged0 :
  Let(ForLanes(LAMBDA l : Add(t[l].v1, merged0[l])), LAMBDA v1 :
    [ v0 |-> v0, v1 |-> v1,
      mul0 |-> ForLanes(LAMBDA l : t[l].mul0),
      mul1 |-> ForLanes(LAMBDA l : t[l].mul1) ])))))

\* PermuteAndUpdate: Update(Permute(v0)).
ScalarHTPermuteAndUpdate(s) ==
  Let(<< PortableRotate64By32(s.v0[3]), PortableRotate64By32(s.v0[4]),
         PortableRotate64By32(s.v0[1]), PortableRotate64By32(s.v0[2]) >>,
      LAMBDA permuted : ScalarHTUpdate(s, permuted))

\* Finalize: four PermuteAndUpdate, then v0[0] + v1[0] + mul0[0] + mul1[0].
ScalarHTFinalize(s) ==
  Let(ScalarHTPermuteAndUpdate(s), LAMBDA s1 :
  Let(ScalarHTPermuteAndUpdate(s1), LAMBDA s2 :
  Let(ScalarHTPermuteAndUpdate(s2), LAMBDA s3 :
  Let(ScalarHTPermuteAndUpdate(s3), LAMBDA s4 :
    Add(Add(Add(s4.v0[1], s4.v1[1]), s4.mul0[1]), s4.mul1[1])))))

\* The final packet of the HighwayTreeHash functions and of the generic
\* PaddedUpdate (state_helpers.h:28-46): as that of ScalarSipTreeHash, with
\* packet4 = static_cast<uint32>(size) << 24.
HTFinalPacket(size, remaining) ==
  LET remainder == Len(remaining)
      remainder_mod4 == remainder % 4
      whole == remainder - remainder_mod4
      packet4 == Packet4(size, SubSeq(remaining, whole + 1, remainder))
  IN  Memcpy(Memcpy(Zero(kPacketSize), 0, SubSeq(remaining, 1, whole)),
             kPacketSize - 4, packet4)

(***************************************************************************)
(* highway_tree_hash.h: HighwayTreeHashState (AVX2). Its init0, init1,     *)
(* ZipperMerge and Permute are those of hh_avx2.h.                         *)
(***************************************************************************)
AVX2HTInit(key_lanes) ==
  LET key == LoadUnalignedLanes(key_lanes)
  IN  [ v0   |-> mm256_xor_si256(key, avx2_init0),
        v1   |-> mm256_xor_si256(AVX2Permute(key), avx2_init1),
        mul0 |-> avx2_init0,
        mul1 |-> avx2_init1 ]

\* Update(const V4x64U& packet), highway_tree_hash.h:65-73.
AVX2HTUpdate(s, packet) ==
  Let(mm256_add_epi64(mm256_add_epi64(s.v1, packet), s.mul0), LAMBDA a1 :
  Let(mm256_xor_si256(s.mul0,
        mm256_mul_epu32(s.v0, mm256_srli_epi64(a1, 32))), LAMBDA m0 :
  Let(mm256_add_epi64(s.v0, s.mul1), LAMBDA a0 :
  Let(mm256_xor_si256(s.mul1,
        mm256_mul_epu32(a1, mm256_srli_epi64(a0, 32))), LAMBDA m1 :
  Let(mm256_add_epi64(a0, AVX2ZipperMerge(a1)), LAMBDA v0 :
  Let(mm256_add_epi64(a1, AVX2ZipperMerge(v0)), LAMBDA v1 :
    [v0 |-> v0, v1 |-> v1, mul0 |-> m0, mul1 |-> m1]))))))

AVX2HTPermuteAndUpdate(s) ==
  Let(AVX2Permute(s.v0), LAMBDA permuted : AVX2HTUpdate(s, permuted))

\* _mm_cvtsi128_si64(a): the low 64 bits.
mm_cvtsi128_si64(a) == SubSeq(a, 1, 8)

AVX2HTFinalize(s) ==
  Let(AVX2HTPermuteAndUpdate(s), LAMBDA s1 :
  Let(AVX2HTPermuteAndUpdate(s1), LAMBDA s2 :
  Let(AVX2HTPermuteAndUpdate(s2), LAMBDA s3 :
  Let(AVX2HTPermuteAndUpdate(s3), LAMBDA s4 :
  Let(mm256_add_epi64(mm256_add_epi64(mm256_add_epi64(s4.v0, s4.v1),
                                      s4.mul0), s4.mul1), LAMBDA sum :
    mm_cvtsi128_si64(mm256_extracti128_si256(sum, 0)))))))

\* The packet of PaddedUpdate<HighwayTreeHashState>,
\* highway_tree_hash.h:124-161.
AVX2HTFinalPacket(size, remaining) ==
  LET remaining_size == Len(remaining)
      remaining_32 == remaining_size \div 4
      packet28 == mm256_maskload_epi32(remaining,
                                       FinalPacketMask(remaining_32))
      packet4 == Packet4(size, SubSeq(remaining, remaining_32 * 4 + 1,
                                      remaining_size))
      v4 == mm256_broadcastd_epi32(mm_cvtsi32_si128(packet4))
  IN  mm256_blend_epi32(packet28, v4, 128)

(***************************************************************************)
(* sse41_highway_tree_hash.cc: SSE41HighwayTreeHash, on pairs of 128-bit   *)
(* vectors L (lanes 0, 1) and H (lanes 2, 3).                              *)
(***************************************************************************)
\* V2x64U(p_1, p_0): lane 0 (p_0) is the lowest (vec.h:260).
V2x64U(p_1, p_0) == p_0 \o p_1

mm_mul_epu32(a, b) ==
  ElemsFrom(LAMBDA n : Mul(ZeroExtend64(Low32(Elem(a, 8, n))),
                           ZeroExtend64(Low32(Elem(b, 8, n)))),
            0, 2)

mm_srli_epi64(a, count) ==
  ElemsFrom(LAMBDA n : Shr(Elem(a, 8, n), count), 0, 2)

mm_shuffle_epi8(a, b) ==
  ElemsFrom(LAMBDA n : LET ctrl == b[n + 1]
                       IN  IF ctrl >= 128 THEN <<0>>
                           ELSE <<a[(ctrl % 16) + 1]>>,
            0, 16)

mm_shuffle_epi32(a, z, y, x, w) ==
  LET sel == <<w, x, y, z>>
  IN  ElemsFrom(LAMBDA n : Elem(a, 4, sel[n + 1]), 0, 4)

SSE41ZipperMerge(v) == mm_shuffle_epi8(v, V2x64U(zipper_hi, zipper_lo))

\* Rot32: _mm_shuffle_epi32(v, _MM_SHUFFLE(2, 3, 0, 1)).
SSE41Rot32(v) == mm_shuffle_epi32(v, 2, 3, 0, 1)

SSE41HTInit(key) ==
  LET init0L == V2x64U(portable_init0[2], portable_init0[1])
      init0H == V2x64U(portable_init0[4], portable_init0[3])
      init1L == V2x64U(portable_init1[2], portable_init1[1])
      init1H == V2x64U(portable_init1[4], portable_init1[3])
      keyL == key[1] \o key[2]
      keyH == key[3] \o key[4]
  IN  [ v0L |-> Xor(keyL, init0L),
        v0H |-> Xor(keyH, init0H),
        v1L |-> Xor(SSE41Rot32(keyH), init1L),
        v1H |-> Xor(SSE41Rot32(keyL), init1H),
        mul0L |-> init0L,
        mul0H |-> init0H,
        mul1L |-> init1L,
        mul1H |-> init1H ]

\* The statements of Update on one of the two halves, which do not
\* depend on the other half.
SSE41UpdateHalf(v0, v1, mul0, mul1, packet) ==
  Let(mm_add_epi64(mm_add_epi64(v1, packet), mul0), LAMBDA a1 :
  Let(Xor(mul0, mm_mul_epu32(v0, mm_srli_epi64(a1, 32))), LAMBDA m0 :
  Let(mm_add_epi64(v0, mul1), LAMBDA a0 :
  Let(Xor(mul1, mm_mul_epu32(a1, mm_srli_epi64(a0, 32))), LAMBDA m1 :
  Let(mm_add_epi64(a0, SSE41ZipperMerge(a1)), LAMBDA b0 :
  Let(mm_add_epi64(a1, SSE41ZipperMerge(b0)), LAMBDA b1 :
    [v0 |-> b0, v1 |-> b1, mul0 |-> m0, mul1 |-> m1]))))))

\* Update(packetL, packetH).
SSE41HTUpdate(s, packetL, packetH) ==
  Let(SSE41UpdateHalf(s.v0L, s.v1L, s.mul0L, s.mul1L, packetL), LAMBDA l :
  Let(SSE41UpdateHalf(s.v0H, s.v1H, s.mul0H, s.mul1H, packetH), LAMBDA h :
    [ v0L |-> l.v0, v0H |-> h.v0, v1L |-> l.v1, v1H |-> h.v1,
      mul0L |-> l.mul0, mul0H |-> h.mul0,
      mul1L |-> l.mul1, mul1H |-> h.mul1 ]))

\* Update(const char* bytes): the two halves of the 32 bytes.
SSE41HTUpdateBytes(s, bytes) ==
  SSE41HTUpdate(s, SubSeq(bytes, 1, 16), SubSeq(bytes, 17, 32))

\* A PermuteAndUpdate that does not swap the 128-bit halves.
SSE41HTPermuteNoSwap(s) ==
  Let(SSE41Rot32(s.v0L), LAMBDA pl :
  Let(SSE41Rot32(s.v0H), LAMBDA ph : SSE41HTUpdate(s, pl, ph)))

\* PermuteAndUpdate: Update(Rot32(v0H), Rot32(v0L)).
SSE41HTPermuteAndUpdate(s) ==
  Let(SSE41Rot32(s.v0H), LAMBDA pl :
  Let(SSE41Rot32(s.v0L), LAMBDA ph : SSE41HTUpdate(s, pl, ph)))

SSE41HTFinalize(s) ==
  Let(SSE41HTPermuteAndUpdate(s), LAMBDA s1 :
  Let(SSE41HTPermuteAndUpdate(s1), LAMBDA s2 :
  Let(SSE41HTPermuteAndUpdate(s2), LAMBDA s3 :
  Let(SSE41HTPermuteAndUpdate(s3), LAMBDA s4 :
  Let(mm_add_epi64(mm_add_epi64(mm_add_epi64(s4.v0L, s4.v1L), s4.mul0L),
                   s4.mul1L), LAMBDA sum :
    mm_cvtsi128_si64(sum))))))

\* LoadFinalPacket(bytes, size, remainder, buffer) on the zeroed buffer of
\* SSE41HighwayTreeHash, sse41_highway_tree_hash.cc:149-176.
SSE41LoadFinalPacket(size, remaining) ==
  LET remainder == Len(remaining)
      remainder_mod4 == remainder % 4
      whole == remainder - remainder_mod4
      packet4 == Packet4(size, SubSeq(remaining, whole + 1, remainder))
  IN  Memcpy(Memcpy(Zero(32), 0, SubSeq(remaining, 1, whole)), 28, packet4)

(***************************************************************************)
(* The hash functions that sip_hash_main.cc compares, each family run on   *)
(* the same key and bytes at once, one step of the function bodies at a    *)
(* time.                                                                   *)
(***************************************************************************)
\* The implementations of a family.
Impls(alg) ==
  CASE alg = "SipTree" -> {"Scalar", "AVX2"}
    [] alg = "HighwayTree" -> {"Scalar", "SSE41", "AVX2"}
    [] alg = "Sip" -> {"SipHash"}

\* State::kPacketSize, or the kPacketSize of the file.
PacketSizeOf(alg) == IF alg = "Sip" THEN kSipPacketSize ELSE kPacketSize

\* The state after the constructor.
TreeStateInit(alg, impl, key) ==
  CASE alg = "SipTree" /\ impl = "Scalar" -> ScalarSipTreeStates(key)
    [] alg = "SipTree" /\ impl = "AVX2" -> AVX2SipTreeInit(key)
    [] alg = "HighwayTree" /\ impl = "Scalar" -> ScalarHTInit(key)
    [] alg = "HighwayTree" /\ impl = "SSE41" -> SSE41HTInit(key)
    [] alg = "HighwayTree" /\ impl = "AVX2" -> AVX2HTInit(key)
    [] alg = "Sip" -> SipInit(key)

\* The state after Update with one packet.
TreeStateUpdate(alg, impl, s, packet) ==
  CASE alg = "SipTree" /\ impl = "Scalar" -> ScalarSipTreeUpdate(s, packet)
    [] alg = "SipTree" /\ impl = "AVX2" -> AVX2SipTreeUpdate(s, packet)
    [] alg = "HighwayTree" /\ impl = "Scalar" ->
         ScalarHTUpdate(s, LanesFromBytes(packet))
    [] alg = "HighwayTree" /\ impl = "SSE41" -> SSE41HTUpdateBytes(s, packet)
    [] alg = "HighwayTree" /\ impl = "AVX2" -> AVX2HTUpdate(s, packet)
    [] alg = "Sip" -> SipUpdate(s, packet)

\* The final packet made of the remaining bytes of an input of size bytes.
TreeFinalPacket(alg, impl, size, remaining) ==
  CASE alg = "SipTree" /\ impl = "Scalar" -> ScalarSipFinalPacket(remaining)
    [] alg = "SipTree" /\ impl = "AVX2" -> LoadFinalPacket32(remaining)
    [] alg = "HighwayTree" /\ impl = "Scalar" -> HTFinalPacket(size, remaining)
    [] alg = "HighwayTree" /\ impl = "SSE41" ->
         SSE41LoadFinalPacket(size, remaining)
    [] alg = "HighwayTree" /\ impl = "AVX2" ->
         AVX2HTFinalPacket(size, remaining)
    [] alg = "Sip" -> SipFinalPacket(size, remaining)

\* The value returned.
TreeResult(alg, impl, key, s) ==
  CASE alg = "SipTree" /\ impl = "Scalar" -> ScalarSipTreeResult(key, s)
    [] alg = "SipTree" /\ impl = "AVX2" -> AVX2SipTreeResult(key, s)
    [] alg = "HighwayTree" /\ impl = "Scalar" -> ScalarHTFinalize(s)
    [] alg = "HighwayTree" /\ impl = "SSE41" -> SSE41HTFinalize(s)
    [] alg = "HighwayTree" /\ impl = "AVX2" -> AVX2HTFinalize(s)
    [] alg = "Sip" -> SipFinalize(s)

TreeTruncated == Len(hh_bytes) - (Len(hh_bytes) % PacketSizeOf(tree_alg))

TreeInit(alg, keys, max_size) ==
  /\ tree_alg = alg
  /\ hh_key \in keys
  /\ \E pattern \in Patterns, size \in 0..max_size :
       hh_bytes = MakeInput(pattern, size)
  /\ tree_pc = "update"
  /\ tree_offset = 0
  /\ tree_state = [impl \in Impls(alg) |-> TreeStateInit(alg, impl, hh_key)]
  /\ tree_hash = [impl \in Impls(alg) |-> NoHash]
  /\ tree_padded = << >>
  /\ HashIdle
  /\ CallIdle
  /\ CatIdle
  /\ ISIdle
  /\ ZeroIdle
  /\ PoolIdle
  /\ FnIdle

\* One iteration of the loop over the whole packets.
TreeUpdate ==
  /\ tree_pc = "update"
  /\ tree_offset < TreeTruncated
  /\ LET packet == SubSeq(hh_bytes, tree_offset + 1,
                          tree_offset + PacketSizeOf(tree_alg))
     IN  tree_state' =
           [impl \in Impls(tree_alg) |->
              TreeStateUpdate(tree_alg, impl, tree_state[impl], packet)]
  /\ tree_offset' = tree_offset + PacketSizeOf(tree_alg)
  /\ UNCHANGED <<inputVars, tree_alg, tree_pc, tree_hash, tree_padded>>
  /\ TreeFrame

\* An UpdateState that leaves PaddedUpdate out when no bytes remain after
\* the whole packets.
TreePaddedUpdateIfRemaining ==
  /\ tree_pc = "update"
  /\ tree_offset >= TreeTruncated
  /\ LET remaining == SubSeq(hh_bytes, TreeTruncated + 1, Len(hh_bytes))
         padded == remaining # << >>
     IN  /\ tree_state' =
               [impl \in Impls(tree_alg) |->
                  IF padded
                  THEN TreeStateUpdate(tree_alg, impl, tree_state[impl],
                         TreeFinalPacket(tree_alg, impl, Len(hh_bytes),
                                         remaining))
                  ELSE tree_state[impl]]
         /\ tree_padded' =
               IF padded
               THEN Append(tree_padded,
                           [size |-> Len(hh_bytes),
                            remaining_size |-> Len(remaining)])
               ELSE tree_padded
  /\ tree_pc' = "finalize"
  /\ UNCHANGED <<inputVars, tree_alg, tree_offset, tree_hash>>
  /\ TreeFrame

\* The Update with the final, padded packet, after the loop.
TreePaddedUpdate ==
  /\ tree_pc = "update"
  /\ tree_offset >= TreeTruncated
  /\ LET remaining == SubSeq(hh_bytes, TreeTruncated + 1, Len(hh_bytes))
     IN  tree_state' =
           [impl \in Impls(tree_alg) |->
              TreeStateUpdate(tree_alg, impl, tree_state[impl],
                TreeFinalPacket(tree_alg, impl, Len(hh_bytes), remaining))]
  /\ tree_pc' = "finalize"
  /\ tree_padded' = Append(tree_padded,
                            [size |-> Len(hh_bytes),
                             remaining_size |-> Len(hh_bytes) - TreeTruncated])
  /\ UNCHANGED <<inputVars, tree_alg, tree_offset, tree_hash>>
  /\ TreeFrame

\* Finalize and, for the tree hashes of SipHash, the reduction; the
\* function returns.
TreeFinalize ==
  /\ tree_pc = "finalize"
  /\ tree_hash' =
       [impl \in Impls(tree_alg) |->
          TreeResult(tree_alg, impl, hh_key, tree_state[impl])]
  /\ tree_pc' = "done"
  /\ UNCHANGED <<inputVars, tree_alg, tree_offset, tree_state, tree_padded>>
  /\ TreeFrame

TreeNext == TreeUpdate \/ TreePaddedUpdate \/ TreeFinalize

SpecSipTree == TreeInit("SipTree", Keys, MaxTreeSize) /\ [][TreeNext]_vars

(***************************************************************************)
(* C11: for every key and every input of 0 to MaxTreeSize bytes,           *)
(* ScalarSipTreeHash and the AVX2 SipTreeHash return the same 64-bit       *)
(* value; and before that the four scalar lane states hold, lane for lane, *)
(* the v0..v3 of the AVX2 state after construction, after every packet and *)
(* after the final padded packet.                                          *)
(***************************************************************************)
\* The 64-bit lanes of v0..v3 of a SipTreeHash state of either kind.
SipTreeLanes(impl, s) ==
  IF impl = "Scalar"
  THEN [ v0 |-> ForLanes(LAMBDA l : s[l].v0),
         v1 |-> ForLanes(LAMBDA l : s[l].v1),
         v2 |-> ForLanes(LAMBDA l : s[l].v2),
         v3 |-> ForLanes(LAMBDA l : s[l].v3) ]
  ELSE [ v0 |-> LanesFromBytes(s.v0),
         v1 |-> LanesFromBytes(s.v1),
         v2 |-> LanesFromBytes(s.v2),
         v3 |-> LanesFromBytes(s.v3) ]

SipTreeAgree ==
  tree_alg = "SipTree" =>
    /\ SipTreeLanes("Scalar", tree_state["Scalar"])
         = SipTreeLanes("AVX2", tree_state["AVX2"])
    /\ tree_hash["Scalar"] = tree_hash["AVX2"]

\* Both have returned a value for an input of MaxTreeSize bytes, which has
\* whole packets and every byte of the last one present.
SipTreeAgreeWitness ==
  /\ tree_alg = "SipTree"
  /\ tree_pc = "done"
  /\ Len(hh_bytes) = MaxTreeSize
  /\ hh_key = HighKey
  /\ Len(tree_hash["Scalar"]) = 8
  /\ tree_hash["Scalar"] = tree_hash["AVX2"]

SpecHighwayTree ==
  TreeInit("HighwayTree", Keys, MaxTreeSize - 1) /\ [][TreeNext]_vars

(***************************************************************************)
(* C12: for every key and every input of fewer than MaxTreeSize bytes,     *)
(* ScalarHighwayTreeHash, SSE41HighwayTreeHash and the AVX2                *)
(* HighwayTreeHash return the same 64-bit value; and before that the       *)
(* three states hold, lane for lane, the same v0, v1, mul0 and mul1 after  *)
(* construction, after every packet and after the final padded packet.     *)
(***************************************************************************)
\* The 64-bit lanes of v0, v1, mul0 and mul1 of a HighwayTreeHash state.
HighwayTreeLanes(impl, s) ==
  CASE impl = "Scalar" -> s
    [] impl = "SSE41" ->
         [ v0   |-> LanesFromBytes(s.v0L \o s.v0H),
           v1   |-> LanesFromBytes(s.v1L \o s.v1H),
           mul0 |-> LanesFromBytes(s.mul0L \o s.mul0H),
           mul1 |-> LanesFromBytes(s.mul1L \o s.mul1H) ]
    [] impl = "AVX2" ->
         [ v0   |-> LanesFromBytes(s.v0),
           v1   |-> LanesFromBytes(s.v1),
           mul0 |-> LanesFromBytes(s.mul0),
           mul1 |-> LanesFromBytes(s.mul1) ]

HighwayTreeAgree ==
  tree_alg = "HighwayTree" =>
    /\ HighwayTreeLanes("Scalar", tree_state["Scalar"])
         = HighwayTreeLanes("SSE41", tree_state["SSE41"])
    /\ HighwayTreeLanes("Scalar", tree_state["Scalar"])
         = HighwayTreeLanes("AVX2", tree_state["AVX2"])
    /\ tree_hash["Scalar"] = tree_hash["SSE41"]
    /\ tree_hash["Scalar"] = tree_hash["AVX2"]

\* All three have returned a value for the longest input, which has whole
\* packets and a final packet with bytes that are not a whole uint32.
HighwayTreeAgreeWitness ==
  /\ tree_alg = "HighwayTree"
  /\ tree_pc = "done"
  /\ Len(hh_bytes) = MaxTreeSize - 1
  /\ hh_key = HighKey
  /\ Len(tree_hash["Scalar"]) = 8
  /\ tree_hash["Scalar"] = tree_hash["SSE41"]
  /\ tree_hash["Scalar"] = tree_hash["AVX2"]

SipKeys == { <<TestKey[1], TestKey[2]>>, <<HighKey[1], HighKey[2]>> }

SpecSip == TreeInit("Sip", SipKeys, MaxSipSize) /\ [][TreeNext]_vars

(***************************************************************************)
(* The SipHash-2-4 test vectors published with the reference               *)
(* implementation of Aumasson and Bernstein: the 8 output bytes, in        *)
(* memory order, for the key bytes 00 01 .. 0F and the input bytes         *)
(* 00 01 .. (n - 1), for n = 0, 1, .., 63 in this order. The table has 64  *)
(* entries; the file that holds it in the repository, sip_hash_test.cc,    *)
(* is not among the sources.                                               *)
(***************************************************************************)
SipReferenceVectors ==
  <<
     <<49, 14, 14, 221, 71, 219, 111, 114>>,
     <<253, 103, 220, 147, 197, 57, 248, 116>>,
     <<90, 79, 169, 217, 9, 128, 108, 13>>,
     <<45, 126, 251, 215, 150, 102, 103, 133>>,
     <<183, 135, 113, 39, 224, 148, 39, 207>>,
     <<141, 166, 153, 205, 100, 85, 118, 24>>,
     <<206, 227, 254, 88, 110, 70, 201, 203>>,
     <<55, 209, 1, 139, 245, 0, 2, 171>>,
     <<98, 36, 147, 154, 121, 245, 245, 147>>,
     <<176, 228, 169, 11, 223, 130, 0, 158>>,
     <<243, 185, 221, 148, 197, 187, 93, 122>>,
     <<167, 173, 107, 34, 70, 47, 179, 244>>,
     <<251, 229, 14, 134, 188, 143, 30, 117>>,
     <<144, 61, 132, 192, 39, 86, 234, 20>>,
     <<238, 242, 122, 142, 144, 202, 35, 247>>,
     <<229, 69, 190, 73, 97, 202, 41, 161>>,
     <<219, 155, 194, 87, 127, 204, 42, 63>>,
     <<148, 71, 190, 44, 245, 233, 154, 105>>,
     <<156, 211, 141, 150, 240, 179, 193, 75>>,
     <<189, 97, 121, 167, 29, 201, 109, 187>>,
     <<152, 238, 162, 26, 242, 92, 214, 190>>,
     <<199, 103, 59, 46, 176, 203, 242, 208>>,
     <<136, 62, 163, 227, 149, 103, 83, 147>>,
     <<200, 206, 92, 205, 140, 3, 12, 168>>,
     <<148, 175, 73, 246, 198, 80, 173, 184>>,
     <<234, 184, 133, 138, 222, 146, 225, 188>>,
     <<243, 21, 187, 91, 184, 53, 216, 23>>,
     <<173, 207, 107, 7, 99, 97, 46, 47>>,
     <<165, 201, 29, 167, 172, 170, 77, 222>>,
     <<113, 101, 149, 135, 102, 80, 162, 166>>,
     <<40, 239, 73, 92, 83, 163, 135, 173>>,
     <<66, 195, 65, 216, 250, 146, 216, 50>>,
     <<206, 124, 242, 114, 47, 81, 39, 113>>,
     <<227, 120, 89, 249, 70, 35, 243, 167>>,
     <<56, 18, 5, 187, 26, 176, 224, 18>>,
     <<174, 151, 161, 15, 212, 52, 224, 21>>,
     <<180, 163, 21, 8, 190, 255, 77, 49>>,
     <<129, 57, 98, 41, 240, 144, 121, 2>>,
     <<77, 12, 244, 158, 229, 212, 220, 202>>,
     <<92, 115, 51, 106, 118, 216, 191, 154>>,
     <<208, 167, 4, 83, 107, 169, 62, 14>>,
     <<146, 89, 88, 252, 214, 66, 12, 173>>,
     <<169, 21, 194, 155, 200, 6, 115, 24>>,
     <<149, 43, 121, 243, 188, 10, 166, 212>>,
     <<242, 29, 242, 228, 29, 69, 53, 249>>,
     <<135, 87, 117, 25, 4, 143, 83, 169>>,
     <<16, 165, 108, 245, 223, 205, 154, 219>>,
     <<235, 117, 9, 92, 205, 152, 108, 208>>,
     <<81, 169, 203, 158, 203, 163, 18, 230>>,
     <<150, 175, 173, 252, 44, 230, 102, 199>>,
     <<114, 254, 82, 151, 90, 67, 100, 238>>,
     <<90, 22, 69, 178, 118, 213, 146, 161>>,
     <<178, 116, 203, 142, 191, 135, 135, 10>>,
     <<111, 155, 180, 32, 61, 231, 179, 129>>,
     <<234, 236, 178, 163, 11, 34, 168, 127>>,
     <<153, 36, 164, 60, 193, 49, 87, 36>>,
     <<189, 131, 141, 58, 175, 191, 141, 183>>,
     <<11, 26, 42, 50, 101, 213, 26, 234>>,
     <<19, 80, 121, 163, 35, 28, 230, 96>>,
     <<147, 43, 40, 70, 228, 215, 6, 102>>,
     <<225, 145, 95, 92, 177, 236, 164, 108>>,
     <<243, 37, 150, 92, 161, 109, 98, 159>>,
     <<87, 95, 242, 142, 96, 56, 27, 229>>,
     <<114, 69, 6, 235, 76, 50, 138, 149>>
  >>

\* The key and the inputs of the reference vectors.
SipReferenceKey == <<TestKey[1], TestKey[2]>>

SipReferenceInput ==
  /\ tree_alg = "Sip"
  /\ tree_pc = "done"
  /\ hh_key = SipReferenceKey
  /\ hh_bytes = MakeInput("iota", Len(hh_bytes))

(***************************************************************************)
(* C13: SipHash of the input bytes 00 .. (n - 1) under the key bytes       *)
(* 00 .. 0F is the n-th published reference vector, for every n that has   *)
(* one, which is every n from 0 to 63.                                     *)
(***************************************************************************)
SipHashMatchesVectors ==
  (SipReferenceInput /\ Len(hh_bytes) + 1 \in DOMAIN SipReferenceVectors) =>
    tree_hash["SipHash"] = SipReferenceVectors[Len(hh_bytes) + 1]

\* The last vector is matched: 63 input bytes, seven whole packets and a
\* final packet of seven bytes and the length.
SipHashMatchesVectorsWitness ==
  /\ SipReferenceInput
  /\ Len(hh_bytes) = Len(SipReferenceVectors) - 1
  /\ tree_hash["SipHash"] = SipReferenceVectors[Len(SipReferenceVectors)]

\* C13 as stated, for every n from 0 to 64: each such n has a published
\* vector and SipHash returns it.
SipHashMatchesThrough64 ==
  (SipReferenceInput /\ Len(hh_bytes) <= 64) =>
    /\ Len(hh_bytes) + 1 \in DOMAIN SipReferenceVectors
    /\ tree_hash["SipHash"] = SipReferenceVectors[Len(hh_bytes) + 1]

(***************************************************************************)
(* C14: over all threads and all calls of Supported(), the detection block *)
(* runs at most once; a thread enters it only when its fetch_add found     *)
(* init_counter at 0; and a call that returns from the first load or from  *)
(* the spin loop returns the value then held by instruction_set_bits_ and  *)
(* runs no detection.                                                      *)
(***************************************************************************)
DetectionAtMostOnce ==
  [][ /\ detections' <= 1
      /\ \A t \in threads :
           /\ (is_pc[t] # "detect" /\ is_pc'[t] = "detect") =>
                init_counter = 0
           /\ (is_pc[t] \in {"load", "spin"}
                 /\ is_pc'[t] \in {"idle", "run"}) =>
                /\ is_flags'[t] = instruction_set_bits_
                /\ detections' = detections ]_vars

\* Every thread has returned from a call; the detection ran once, and some
\* thread lost the race for it and spun.
DetectionAtMostOnceWitness ==
  /\ detections = 1
  /\ init_counter >= 2
  /\ \A t \in threads : is_done[t] >= 1 /\ is_pc[t] = "idle"

(***************************************************************************)
(* C15: instruction_set_bits_ changes only from 0, and then to a value     *)
(* with the kInitialized bit set, so it changes at most once; and no call  *)
(* of Supported() returns 0.                                               *)
(***************************************************************************)
BitsWrittenOnce ==
  [][ /\ (instruction_set_bits_' # instruction_set_bits_) =>
           /\ instruction_set_bits_ = 0
           /\ HasFlag(instruction_set_bits_', kInitialized)
      /\ 0 \notin returned' ]_vars

\* On a machine without any extension the value stored and returned is
\* kInitialized alone; a later call has returned it as well.
BitsWrittenOnceWitness ==
  /\ instruction_set_bits_ = kInitialized
  /\ returned = {kInitialized}
  /\ \E t \in threads : is_done[t] >= 2

(***************************************************************************)
(* C16: a Run invokes the SSE4.1 target only on a machine that reports     *)
(* OSXSAVE and has bit 1 of XCR0 set, and the AVX2 target only on a        *)
(* machine that reports OSXSAVE and has bits 1 and 2 of XCR0 set.          *)
(***************************************************************************)
\* CPUID.1:ECX bit 27, and a bit of XCR0.
ReportsOSXSAVE == IsBitSet(cpu, "1", "ecx", 27)

XCR0Bit(n) == (cpu.xcr0 \div Pow2(n)) % 2 = 1

SimdOnlyWithOSSupport ==
  \A t \in threads :
    \A i \in DOMAIN invoked[t] :
      /\ invoked[t][i] = "SSE41" => (ReportsOSXSAVE /\ XCR0Bit(1))
      /\ invoked[t][i] = "AVX2" =>
           (ReportsOSXSAVE /\ XCR0Bit(1) /\ XCR0Bit(2))

(***************************************************************************)
(* C17: HighwayHashT calls Update once for each of the floor(size / 32)    *)
(* whole packets, at the offsets 0, 32, .. in increasing order; then       *)
(* UpdateRemainder(bytes + (size & ~31), size & 31) once if size mod 32 is *)
(* not 0 and not at all if it is 0; then Finalize once. At every point the *)
(* calls made so far are the beginning of this sequence, and when          *)
(* HighwayHashT has returned they are the whole of it.                     *)
(***************************************************************************)
\* The calls the claim describes for an input of size bytes.
ExpectedCalls(size, bits) ==
  Bytes([i \in 1..(size \div 32) |-> <<"Update", 32 * (i - 1)>>])
    \o (IF size % 32 # 0
        THEN << <<"UpdateRemainder", size - (size % 32), size % 32>> >>
        ELSE << >>)
    \o << <<"Finalize", bits>> >>

CallsInOrder ==
  pc # "idle" =>
    \E bits \in Widths :
      LET expected == ExpectedCalls(Len(hh_bytes), bits)
      IN  /\ Len(calls) <= Len(expected)
          /\ calls = SubSeq(expected, 1, Len(calls))
          /\ pc = "done" => calls = expected

\* HighwayHashT has returned for an input of two whole packets and one more
\* byte: two Update, one UpdateRemainder, one Finalize.
CallsInOrderWitness ==
  /\ pc = "done"
  /\ Len(hh_bytes) = 65
  /\ Len(calls) = 4
  /\ calls[3] = <<"UpdateRemainder", 64, 1>>

(***************************************************************************)
(* C18: the state after construction from the key K. The numbers of INIT0  *)
(* and INIT1 are listed in the order 0x243f6a8885a308d3, .. for INIT0 and  *)
(* 0x452821e638d01377, .. for INIT1.                                       *)
(***************************************************************************)
ListedInit0 ==
  <<
     Lit64(9279, 27272, 34211, 2259),   \* 0x243f6a8885a308d3
     Lit64(4889, 35374, 880, 29508),   \* 0x13198a2e03707344
     Lit64(41993, 14370, 10655, 12752),   \* 0xa4093822299f31d0
     Lit64(56294, 54741, 65100, 52783) >>   \* 0xdbe6d5d5fe4cce2f

ListedInit1 ==
  <<
     Lit64(17704, 8678, 14544, 4983),   \* 0x452821e638d01377
     Lit64(48724, 26319, 13545, 3180),   \* 0xbe5466cf34e90c6c
     Lit64(49324, 61801, 46577, 35468),   \* 0xc0acf169b5f18a8c
     Lit64(15315, 40464, 51982, 62867) >>   \* 0x3bd39e10cb0ef593

\* The 32-bit halves of a 64-bit lane exchanged.
SwapHalves(x) == SubSeq(x, 5, 8) \o SubSeq(x, 1, 4)

\* The state right after the constructor, before any call on it.
Constructed == pc = "update" /\ calls = << >>

\* Both targets hold mul0 = init0, mul1 = init1, v0 = K ^ init0 and
\* v1 = rotate64by32(K) ^ init1 in each lane.
ConstructedFrom(init0, init1) ==
  \A target \in Targets :
    LET s == StateLanes(target, IF target = "Portable" THEN portable ELSE avx2)
    IN  \A i \in LaneIds :
          /\ s.mul0[i] = init0[i]
          /\ s.mul1[i] = init1[i]
          /\ s.v0[i] = Xor(hh_key[i], init0[i])
          /\ s.v1[i] = Xor(SwapHalves(hh_key[i]), init1[i])

Reversed(list) == <<list[4], list[3], list[2], list[1]>>

\* C18, amended: lane i (0..3) holds the element 3 - i of the lists, so
\* lane 0 of mul0 is 0xdbe6d5d5fe4cce2f and lane 0 of mul1 is
\* 0x3bd39e10cb0ef593.
ConstructedReversed ==
  Constructed => ConstructedFrom(Reversed(ListedInit0), Reversed(ListedInit1))

\* A state constructed from the key with high bits set.
ConstructedReversedWitness ==
  /\ Constructed
  /\ hh_key = HighKey
  /\ portable.mul0[1] = ListedInit0[4]
  /\ LanesFromBytes(avx2.v0)[4] = Xor(HighKey[4], ListedInit0[1])

\* C18 as stated: lane i holds the element i of the lists, lane 0 of mul0
\* being 0x243f6a8885a308d3 and lane 0 of mul1 0x452821e638d01377.
ConstructedAsListed ==
  Constructed => ConstructedFrom(ListedInit0, ListedInit1)

(***************************************************************************)
(* hh_portable.h: ZipperMergeAndAdd on operands of its own.                *)
(***************************************************************************)
\* ZipperMergeAndAdd(v1, v0, &add1, &add0), hh_portable.h:172-185: what the
\* call leaves in *add1 and *add0.
ZipperMergeAndAdd(v1, v0, add1, add0) ==
  [add1 |-> Add(add1, ZipperMergeAdd1(v1, v0)),
   add0 |-> Add(add0, ZipperMergeAdd0(v1, v0))]

\* The 64-bit operands tried: zero, all ones, two values of eight distinct
\* bytes (below and above 0x80), and 0xFF in one byte at a time.
OneByte(at, value) == Bytes([i \in 1..8 |-> IF i = at THEN value ELSE 0])

LowBytes == <<1, 2, 3, 4, 5, 6, 7, 8>>

HighBytes == <<129, 130, 131, 132, 133, 134, 135, 136>>

Ones(n) == Bytes([i \in 1..n |-> 255])

ZipperOperands ==
  {Zero(8), Ones(8), LowBytes, HighBytes} \cup {OneByte(at, 255) : at \in 1..8}

ZipperAccumulators == {Zero(8), Ones(8), HighBytes}

ZipperInit ==
  /\ fn = "ZipperMergeAndAdd"
  /\ fn_args \in [v1 : ZipperOperands, v0 : ZipperOperands,
                  add1 : ZipperAccumulators, add0 : ZipperAccumulators]
  /\ fn_result = << >>
  /\ hh_key = TestKey
  /\ hh_bytes = << >>
  /\ HashIdle
  /\ CallIdle
  /\ CatIdle
  /\ ISIdle
  /\ ZeroIdle
  /\ PoolIdle
  /\ TreeIdle

ZipperMergeAndAddCall ==
  /\ fn = "ZipperMergeAndAdd"
  /\ fn_result = << >>
  /\ fn_result' = ZipperMergeAndAdd(fn_args.v1, fn_args.v0,
                                    fn_args.add1, fn_args.add0)
  /\ UNCHANGED <<fn, fn_args>>
  /\ FnFrame

ZipperNext == ZipperMergeAndAddCall

SpecZipper == ZipperInit /\ [][ZipperNext]_vars

\* The byte shuffle of a 128-bit half: byte i of the result is byte
\* control[i] of the half whose low lane is v0 and whose high lane is v1.
ShuffleControl == <<3, 12, 2, 5, 14, 1, 15, 0, 11, 4, 10, 13, 9, 6, 8, 7>>

ShuffledHalf(v1, v0) ==
  LET half == v0 \o v1
  IN  Bytes([i \in 1..16 |-> half[ShuffleControl[i] + 1]])

\* C19: for all 64-bit v0 (low lane) and v1 (high lane), ZipperMergeAndAdd
\* adds to (add1, add0) exactly the 16 bytes of the byte shuffle whose
\* destination byte i is source byte {3, 12, 2, 5, 14, 1, 15, 0, 11, 4, 10,
\* 13, 9, 6, 8, 7}[i] of the half (v1:v0): add0 grows by the low 8 bytes of
\* the shuffled half and add1 by its high 8 bytes, so the sum of the masked
\* and shifted terms equals the selection of bytes; it is the shuffle that
\* ZipperMerge of the AVX2 target applies to each half.
ZipperMergeSelectsBytes ==
  (fn = "ZipperMergeAndAdd" /\ fn_result # << >>) =>
    LET shuffled == ShuffledHalf(fn_args.v1, fn_args.v0)
    IN  /\ fn_result.add0 = Add(fn_args.add0, SubSeq(shuffled, 1, 8))
        /\ fn_result.add1 = Add(fn_args.add1, SubSeq(shuffled, 9, 16))
        /\ AVX2ZipperMerge(fn_args.v0 \o fn_args.v1 \o fn_args.v0 \o fn_args.v1)
             = shuffled \o shuffled

\* The call has returned on operands whose sixteen bytes are all different
\* and all ones, with accumulators that the addition carries out of.
ZipperMergeSelectsBytesWitness ==
  /\ fn = "ZipperMergeAndAdd"
  /\ fn_result # << >>
  /\ fn_args.v0 = LowBytes
  /\ fn_args.v1 = HighBytes
  /\ fn_args.add0 = Ones(8)
  /\ fn_args.add1 = HighBytes
  /\ fn_result.add0 # fn_args.add0

(***************************************************************************)
(* UpdateRemainder on a tail of its own.                                   *)
(***************************************************************************)
\* UpdateRemainder(bytes, size_mod32) on a state that the constructor has
\* just made, in both targets: the packet it passes to Update and the state
\* that Update leaves.
UpdateRemainderOf(target, key, bytes, size_mod32) ==
  [packet |-> IF target = "Portable"
              THEN PortableRemainderPacket(bytes, size_mod32)
              ELSE AVX2RemainderPacket(bytes, size_mod32),
   state  |-> StateUpdateRemainder(target, StateInit(target, key), bytes,
                                   size_mod32)]

\* The tails have 1..kPacketSize - 1 bytes, as HighwayHashT passes them.
RemainderInit ==
  /\ fn = "UpdateRemainder"
  /\ hh_key \in Keys
  /\ \E pattern \in Patterns, size_mod32 \in 1..(kPacketSize - 1) :
       /\ hh_bytes = MakeInput(pattern, size_mod32)
       /\ fn_args = [size_mod32 |-> size_mod32]
  /\ fn_result = << >>
  /\ HashIdle
  /\ CallIdle
  /\ CatIdle
  /\ ISIdle
  /\ ZeroIdle
  /\ PoolIdle
  /\ TreeIdle

UpdateRemainderCall ==
  /\ fn = "UpdateRemainder"
  /\ fn_result = << >>
  /\ fn_result' =
       [target \in Targets |->
          UpdateRemainderOf(target, hh_key, hh_bytes, fn_args.size_mod32)]
  /\ UNCHANGED <<fn, fn_args>>
  /\ FnFrame

RemainderNext == UpdateRemainderCall

SpecRemainder == RemainderInit /\ [][RemainderNext]_vars

\* The packet as stated for a tail b of 1..15 bytes: the whole 32-bit words
\* of the tail, then zeros up to offset 16, then the 64-bit word
\* b[0] + 256 * b[size_mod4 >> 1] + 65536 * b[size_mod4 - 1] over the
\* trailing size_mod4 bytes as unsigned values, then zeros.
UnsignedWord(c) == <<c, 0, 0, 0, 0, 0, 0, 0>>

StatedLast4(bytes, size_mod32) ==
  LET size_mod4 == size_mod32 % 4
      base == size_mod32 - size_mod4
  IN  IF size_mod4 = 0 THEN Zero(8)
      ELSE Add(Add(UnsignedWord(bytes[base + 1]),
                   Shl(UnsignedWord(bytes[base + (size_mod4 \div 2) + 1]), 8)),
               Shl(UnsignedWord(bytes[base + size_mod4]), 16))

StatedPacket(bytes, size_mod32) ==
  LET whole == size_mod32 - (size_mod32 % 4)
  IN  SubSeq(bytes, 1, whole) \o Zero(16 - whole)
        \o StatedLast4(bytes, size_mod32) \o Zero(8)

\* C20: for every tail length size_mod32 in 1..15 and every tail content,
\* bytes of 0x80 and above included, the packet that UpdateRemainder passes
\* to Update has the tail's whole 32-bit words in bytes [0, size_mod32 & ~3),
\* the 64-bit word b[0] + 256 * b[size_mod4 >> 1] + 65536 * b[size_mod4 - 1]
\* of the trailing bytes taken as unsigned values at offset 16, and zero in
\* every other byte.
RemainderPacketAsStated ==
  (fn = "UpdateRemainder" /\ fn_result # << >> /\ fn_args.size_mod32 <= 15) =>
    \A target \in Targets :
      fn_result[target].packet = StatedPacket(hh_bytes, fn_args.size_mod32)

\* The same on the tails whose trailing bytes are all below 0x80.
RemainderPacketBelow0x80 ==
  (/\ fn = "UpdateRemainder"
   /\ fn_result # << >>
   /\ fn_args.size_mod32 <= 15
   /\ \A i \in 1..Len(hh_bytes) : hh_bytes[i] < 128) =>
    \A target \in Targets :
      fn_result[target].packet = StatedPacket(hh_bytes, fn_args.size_mod32)

\* The two targets pass the same packet and leave the same state.
RemainderTargetsAgree ==
  (fn = "UpdateRemainder" /\ fn_result # << >>) =>
    /\ fn_result["Portable"].packet = fn_result["AVX2"].packet
    /\ BytesFromLanes(fn_result["Portable"].state.v0)
         = fn_result["AVX2"].state.v0
    /\ BytesFromLanes(fn_result["Portable"].state.v1)
         = fn_result["AVX2"].state.v1

(***************************************************************************)
(* C21: after any sequence of Append calls on a fresh HighwayHashCatT      *)
(* whose fragments total n bytes, buffer_usage_ = n mod 32, the first      *)
(* buffer_usage_ bytes of buffer_ are the last n mod 32 bytes of the       *)
(* concatenated input, and state_.Update has been called exactly           *)
(* floor(n / 32) times, on the consecutive 32-byte blocks of the           *)
(* concatenated input in order, which is how state_ got its value.         *)
(***************************************************************************)
AppendBuffersTail ==
  cat_pc = "append" =>
    LET n == cat_pos
    IN  /\ cat.buffer_usage_ = n % 32
        /\ cat.buffer_usage_ \in 0..31
        /\ SubSeq(cat.buffer_, 1, cat.buffer_usage_)
             = SubSeq(hh_bytes, n - (n % 32) + 1, n)
        /\ Len(cat_updates) = n \div 32
        /\ \A k \in 1..Len(cat_updates) :
             cat_updates[k] = SubSeq(hh_bytes, 32 * (k - 1) + 1, 32 * k)
        /\ cat.state_ = UpdateLoop(cat_target, StateInit(cat_target, hh_key),
                                   SubSeq(hh_bytes, 1, n - (n % 32)), 0)

\* Three fragments of 5, 32 and 32 bytes or the like: the buffer has been
\* filled and flushed, two packets have gone to Update and 5 bytes are left.
AppendBuffersTailWitness ==
  /\ cat_pc = "append"
  /\ cat_appends = 3
  /\ cat_pos = 69
  /\ cat.buffer_usage_ = 5
  /\ Len(cat_updates) = 2
  /\ cat_updates[1] = SubSeq(hh_bytes, 1, 32)

(***************************************************************************)
(* C22: Append with num_bytes = 0 has no effect in any reachable state:    *)
(* buffer_usage_, the valid bytes of buffer_ and the compression state are *)
(* unchanged and Update is not called (nor is any byte of the source       *)
(* read), whether the buffer is empty or partly filled.                    *)
(***************************************************************************)
EmptyAppendStep ==
  /\ cat_pc = "append"
  /\ cat_appends' = cat_appends + 1
  /\ cat_pos' = cat_pos

EmptyAppendNoEffect ==
  [][EmptyAppendStep =>
       /\ cat'.buffer_usage_ = cat.buffer_usage_
       /\ SubSeq(cat'.buffer_, 1, cat.buffer_usage_)
            = SubSeq(cat.buffer_, 1, cat.buffer_usage_)
       /\ cat'.state_ = cat.state_
       /\ cat_updates' = cat_updates
       /\ cat_reads' = cat_reads]_vars

\* Three Append calls, at least two of them empty, have left 5 bytes in the
\* buffer: in some order of the three, an empty one found the buffer empty
\* and an empty one found it partly filled.
EmptyAppendNoEffectWitness ==
  /\ cat_pc = "append"
  /\ cat_appends = 3
  /\ cat_pos = 5
  /\ cat.buffer_usage_ = 5
  /\ cat_updates = << >>

(***************************************************************************)
(* HighwayHashCatT used again after Finalize. The class keeps no record of *)
(* Finalize having been called and its member functions test nothing but   *)
(* buffer_usage_ and num_bytes, so the calls run as they do before.        *)
(***************************************************************************)
\* Finalize(hash) on an object that Finalize has been called on.
CatFinalizeAgain ==
  /\ cat_pc = "done"
  /\ cat_finalizes < MaxFinalizes
  /\ cat' = [cat EXCEPT
               !.state_ = StateFourRounds(cat_target,
                                          CatFlushed(cat_target, cat))]
  /\ \E bits \in Widths :
       cat_hash' = StateResult(cat_target, cat'.state_, bits)
  /\ buffer_reads' = IF cat.buffer_usage_ # 0
                     THEN RemainderReads(cat_target, cat.buffer_usage_)
                     ELSE {}
  /\ cat_finalizes' = cat_finalizes + 1
  /\ UNCHANGED <<hh_key, hh_bytes, cat_target, cat_pc, cat_pos, cat_appends,
                 cat_reads, cat_updates, one_shot>>
  /\ CatFrame

\* Append of the next num_bytes bytes of hh_bytes to an object that
\* Finalize has been called on.
CatAppendAfterFinalize ==
  /\ cat_pc = "done"
  /\ cat_finalizes < MaxFinalizes
  /\ cat_appends < MaxAppends
  /\ \E num_bytes \in FragmentSizes :
       /\ cat_pos + num_bytes <= Len(hh_bytes)
       /\ cat' = CatAppended(cat_target, cat,
                             SubSeq(hh_bytes, cat_pos + 1, cat_pos + num_bytes))
       /\ cat_reads' = cat_reads \cup
            {cat_pos + o : o \in CatAppendReads(cat.buffer_usage_, num_bytes)}
       /\ cat_updates' = cat_updates \o
            CatAppendUpdates(cat, SubSeq(hh_bytes, cat_pos + 1,
                                         cat_pos + num_bytes))
       /\ cat_pos' = cat_pos + num_bytes
  /\ cat_appends' = cat_appends + 1
  /\ UNCHANGED <<hh_key, hh_bytes, cat_target, cat_pc, cat_hash, buffer_reads,
                 one_shot, cat_finalizes>>
  /\ CatFrame

MisuseNext ==
  CatAppend \/ CatFinalize \/ CatFinalizeAgain \/ CatAppendAfterFinalize

\* The objects of CatInit whose buffer_ happens to start as zeros.
MisuseInit == CatInit /\ cat.buffer_ = Zero(kPacketSize)

SpecCatMisuse == MisuseInit /\ [][MisuseNext]_vars

\* C23: misuse of the incremental interface is detected: a second Finalize
\* on the same HighwayHashCatT, or an Append after Finalize, ends in an
\* abort instead of continuing and returning: every call made once Finalize
\* has returned leaves the caller aborted.
MisuseAborts == [][cat_finalizes >= 1 => cat_pc' = "aborted"]_vars

\* What the calls do instead: the second Finalize writes a digest, which is
\* not that of the bytes appended, and each call after Finalize returns.
MisuseContinues ==
  [][cat_finalizes >= 1 => (cat_pc' = "done" /\ cat_hash' # NoHash)]_vars

SecondFinalizeReturned ==
  /\ cat_finalizes = 2
  /\ cat_pc = "done"
  /\ cat_hash # one_shot

OneTaskPerWorker ==
  (/\ tp_pc = "idle"
   /\ tp_runs > 0
   /\ tp_command = WorkerCommand(0, num_threads_)) =>
    \A w \in DOMAIN w_executed : w_executed[w] = 1

\* What does hold of such a call: the workers have invoked func N times
\* between them.
TasksShared ==
  (/\ tp_pc = "idle"
   /\ tp_runs > 0
   /\ tp_command = WorkerCommand(0, num_threads_)) =>
    /\ \A i \in 0..(num_threads_ - 1) : invocations[i] = 1
    /\ \A w \in DOMAIN w_executed : w_executed[w] \in 0..num_threads_

\* Run(0, 2, func) has returned on a pool of two workers, the first of
\* which has run both tasks.
OneWorkerRanBoth ==
  /\ tp_pc = "idle"
  /\ tp_runs > 0
  /\ num_threads_ = 2
  /\ tp_command = WorkerCommand(0, 2)
  /\ w_executed = <<2, 0>>

(***************************************************************************)
(* C26: a worker that wakes spuriously from worker_start_cv_.wait, with no *)
(* StartWorkers call since it began waiting, at any point after            *)
(* construction or between Run calls, resumes waiting: it executes no      *)
(* task, does not exit and does not increment workers_ready_. Its next     *)
(* step, the switch on the command it reads, takes it back to the wait.    *)
(***************************************************************************)
SpuriousWakeResumesWait ==
  [][\A w \in DOMAIN w_pc :
       (w_pc[w] = "spurious" /\ w_pc'[w] \notin Awake) =>
         w_pc'[w] = "wait"]_vars

\* A worker woken spuriously between two Run calls has gone through
\* RunRange again on the command of the Run that has returned, and has
\* incremented workers_ready_ while the owner is idle.
SpuriousWakeCounted ==
  /\ tp_pc = "idle"
  /\ tp_runs > 0
  /\ spurious = 1
  /\ workers_ready_ > 0

\* A worker woken spuriously before the first StartWorkers has left
\* ThreadFunc.
SpuriousWakeExited ==
  /\ tp_pc = "idle"
  /\ worker_start_command_ = Indeterminate
  /\ \E w \in DOMAIN w_pc : w_pc[w] = "exited"

\* The owner is about to execute StartWorkers, from Run or from ~ThreadPool.
AtStartWorkers == tp_pc \in {"run_start", "dtor_start"}

\* The worker is inside its call of worker_start_cv_.wait: blocked, or woken
\* and not yet past the switch on the command.
InWait(w) == w_pc[w] \in {"wait"} \cup Awake

\* RunRange reads num_reserved_ at "range" and "reserve" and task_ at "task".
InRunRange(w) == w_pc[w] \in {"range", "reserve", "task"}

\* The step of Run that stores task_ and num_reserved_.
WritesTask == tp_pc = "idle" /\ tp_pc' = "run_start"

(***************************************************************************)
(* C27: whenever StartWorkers is called, from Run or from the destructor,  *)
(* every worker is blocked in worker_start_cv_.wait, so that notify_all    *)
(* reaches all of them; and no worker is in RunRange, reading task_ or     *)
(* num_reserved_, in the step in which Run writes them.                    *)
(***************************************************************************)
AllWaitAtStartWorkers ==
  [][/\ AtStartWorkers => \A w \in DOMAIN w_pc : InWait(w)
     /\ WritesTask => \A w \in DOMAIN w_pc : ~InRunRange(w)]_vars

\* With condition variables that wake only when notified, the workers do
\* all wait whenever the owner is idle or about to execute StartWorkers.
AllWaitWhenNotifiedOnly ==
  (tp_pc = "idle" \/ AtStartWorkers) =>
    \A w \in DOMAIN w_pc : w_pc[w] = "wait"

\* StartWorkers is called in Run while a worker, woken spuriously, is in
\* RunRange on the range of the Run before.
StartWorkersDuringRunRange ==
  /\ tp_pc = "run_start"
  /\ tp_runs > 0
  /\ \E w \in DOMAIN w_pc : InRunRange(w)

(***************************************************************************)
(* instruction_sets.cc: Supported() under a scheduler that lets every      *)
(* thread that is inside a call run again and again.                       *)
(***************************************************************************)
\* The steps a thread takes by itself once it is inside Supported() or Run.
ISStep(t) ==
  ISLoad(t) \/ ISFetchAdd(t) \/ ISSpin(t) \/ ISDetect(t) \/ ISStore(t)
    \/ ISRun(t)

\* Every thread inside a call is scheduled fairly: the one that won the
\* init_counter race until it has stored instruction_set_bits_, the others
\* so that they load it again.
ISFair == \A t \in 1..NumThreads : WF_vars(ISStep(t))

\* A machine with every feature and one with none: the loops of Supported()
\* do not depend on what the detection finds.
TwoCpus == {Cpu(Features, TRUE, 7, 7), Cpu({}, FALSE, 0, 6)}

SpecSupportedFair ==
  ISInit(TwoCpus, NumThreads) /\ [][ISNext]_vars /\ ISFair

\* The thread is inside Supported() and has not returned from it.
InSupported(t) ==
  t \in threads /\ is_pc[t] \in {"load", "fetch_add", "spin", "detect", "store"}

(***************************************************************************)
(* C28: under fair scheduling every call of Supported() returns, whatever  *)
(* the number of concurrent callers and their interleaving: no caller      *)
(* stays in the spin loop forever.                                         *)
(***************************************************************************)
SupportedReturns ==
  \A t \in 1..NumThreads : InSupported(t) ~> ~InSupported(t)

\* Every thread has returned from its first call, all but one of them out
\* of the spin loop or after the load: init_counter counts those that found
\* instruction_set_bits_ zero.
SupportedReturnsWitness ==
  /\ \A t \in threads : is_pc[t] = "idle" /\ is_done[t] = 1
  /\ init_counter = NumThreads
  /\ detections = 1
  /\ instruction_set_bits_ = Detected(cpu)

(***************************************************************************)
(* The sizes that reach UpdateRemainder, from HighwayHashT and from        *)
(* HighwayHashCatT::Finalize.                                              *)
(***************************************************************************)
\* The size_mod32 of the calls of UpdateRemainder that HighwayHashT has made.
HashRemainderSizes ==
  {calls[i][3] : i \in {j \in DOMAIN calls : calls[j][1] = "UpdateRemainder"}}

\* The size_mod32 that Finalize passes, or would pass, to UpdateRemainder:
\* buffer_usage_ when it is not zero.
CatRemainderSizes ==
  IF cat_pc \in {"append", "done"} /\ cat.buffer_usage_ # 0
  THEN {cat.buffer_usage_} ELSE {}

\* The counts by which Rotate32By shifts: count to the left and 32 - count
\* to the right.
Rotate32ByShifts(count) == {count, 32 - count}

(***************************************************************************)
(* C29: UpdateRemainder is only invoked with size_mod32 in 1..31, by        *)
(* HighwayHashT and by HighwayHashCatT::Finalize; so the portable          *)
(* Rotate32By shifts a 32-bit value by less than 32 bits, and the four     *)
(* bytes read at bytes + size_mod32 - 4 in the 16..31 branch, like every   *)
(* other read, lie within the tail.                                        *)
(***************************************************************************)
RemainderSizeInRange ==
  \A size_mod32 \in HashRemainderSizes \cup CatRemainderSizes :
    /\ size_mod32 \in 1..(kPacketSize - 1)
    /\ Rotate32ByShifts(size_mod32) \subseteq 0..31
    /\ PortableRemainderReads(size_mod32) \subseteq 0..(size_mod32 - 1)

\* HighwayHashT has hashed 31 bytes with one call of UpdateRemainder, whose
\* size_mod32 is the largest there is.
RemainderSizeInRangeWitness ==
  /\ pc = "done"
  /\ Len(hh_bytes) = 31
  /\ calls[1] = <<"UpdateRemainder", 0, 31>>
  /\ HashRemainderSizes = {31}

\* Finalize has passed a buffer of 29 bytes to UpdateRemainder.
CatRemainderSizeReached ==
  /\ cat_pc = "done"
  /\ CatRemainderSizes = {29}
  /\ buffer_reads # {}

(***************************************************************************)
(* UpdateRemainder on two tails of one length.                             *)
(***************************************************************************)
\* What is added, modulo 256, to one byte of a tail and to the byte after
\* it to make the other tail: one byte changed, by one or in its sign bit,
\* or two neighbours changed so that the sign extension of the first meets
\* the change of the second in the sum of the gather.
TailDeltas ==
  {<<1, 0>>, <<128, 0>>, <<255, 0>>, <<128, 1>>, <<128, 255>>, <<1, 255>>}

\* The tail with delta[1] added to the byte at offset at and delta[2] to the
\* byte at offset at + 1, if there is one.
OtherTail(bytes, at, delta) ==
  Bytes([i \in 1..Len(bytes) |->
           IF i = at + 1 THEN (bytes[i] + delta[1]) % 256
           ELSE IF i = at + 2 THEN (bytes[i] + delta[2]) % 256
           ELSE bytes[i]])

TailPatterns == {"iota", "high"}

\* Two tails of size_mod32 bytes each, size_mod32 in 1..kPacketSize - 1,
\* that differ in one byte or in two.
TailsInit ==
  /\ fn = "RemainderPacket"
  /\ hh_key = TestKey
  /\ \E pattern \in TailPatterns, size_mod32 \in 1..(kPacketSize - 1) :
       /\ hh_bytes = MakeInput(pattern, size_mod32)
       /\ \E at \in 0..(size_mod32 - 1), delta \in TailDeltas :
            fn_args = [size_mod32 |-> size_mod32,
                       other |-> OtherTail(hh_bytes, at, delta)]
  /\ fn_result = << >>
  /\ HashIdle
  /\ CallIdle
  /\ CatIdle
  /\ ISIdle
  /\ ZeroIdle
  /\ PoolIdle
  /\ TreeIdle

\* The packet that UpdateRemainder passes to Update, by target.
RemainderPacket(target, bytes, size_mod32) ==
  IF target = "Portable" THEN PortableRemainderPacket(bytes, size_mod32)
  ELSE AVX2RemainderPacket(bytes, size_mod32)

\* UpdateRemainder on each of the two tails, in both targets.
RemainderPacketsCall ==
  /\ fn = "RemainderPacket"
  /\ fn_result = << >>
  /\ fn_result' =
       [target \in Targets |->
          << RemainderPacket(target, hh_bytes, fn_args.size_mod32),
             RemainderPacket(target, fn_args.other, fn_args.size_mod32) >>]
  /\ UNCHANGED <<fn, fn_args>>
  /\ FnFrame

TailsNext == RemainderPacketsCall

SpecTails == TailsInit /\ [][TailsNext]_vars

(***************************************************************************)
(* C30: for every tail length size_mod32 in 1..31, two tails of that       *)
(* length that differ in at least one byte give different padded packets,  *)
(* in the branch below 16 bytes with its three-byte gather and in the      *)
(* branch from 16 bytes on with its load of the last four bytes, on the    *)
(* portable and on the AVX2 target.                                        *)
(***************************************************************************)
RemainderPacketInjective ==
  (fn = "RemainderPacket" /\ fn_result # << >>) =>
    \A target \in Targets :
      hh_bytes # fn_args.other =>
        fn_result[target][1] # fn_result[target][2]

\* Two tails of 7 bytes whose bytes at offsets 4 and 5, the first two of the
\* three that the gather reads, both differ, the first in its sign bit;
\* their packets differ.
RemainderPacketInjectiveWitness ==
  /\ fn = "RemainderPacket"
  /\ fn_result # << >>
  /\ fn_args.size_mod32 = 7
  /\ hh_bytes[5] >= 128
  /\ fn_args.other[5] = hh_bytes[5] - 128
  /\ fn_args.other[6] = (hh_bytes[6] + 1) % 256
  /\ fn_result["Portable"][1] # fn_result["Portable"][2]

\* The same for two tails of 29 bytes that differ in the last byte only,
\* which only the load of the last four bytes brings into the packet.
LastByteOf29Reached ==
  /\ fn = "RemainderPacket"
  /\ fn_result # << >>
  /\ fn_args.size_mod32 = 29
  /\ SubSeq(fn_args.other, 1, 28) = SubSeq(hh_bytes, 1, 28)
  /\ fn_args.other[29] # hh_bytes[29]
  /\ fn_result["AVX2"][1] # fn_result["AVX2"][2]

====
